---- MODULE Spec2Model ----
(***************************************************************************)
(* Model of notare's iReal Pro encoder (src/src/notare/irealpro.py).       *)
(* Further down: the deleting functions (src/src/notare/delete.py) and     *)
(* ornament removal (src/src/notare/simplify.py).                          *)
(*                                                                         *)
(* Text is modelled as a sequence of one-character strings, so that the    *)
(* string methods the encoder relies on (strip, startswith, replace,       *)
(* lower, split, join, quote, unquote) are computed, not assumed.         *)
(* The score tree of the music21 library is modelled as plain records      *)
(* holding exactly the attributes the encoder reads.                       *)
(***************************************************************************)
EXTENDS Integers, Sequences, FiniteSets, TLC

(***************************************************************************)
(* Python string methods on character sequences                            *)
(***************************************************************************)

\* str.isspace for one character
IsSpace(c) == c \in {" "}

RECURSIVE LStrip(_)
\* str.lstrip()
LStrip(s) ==
    IF s = <<>> THEN <<>>
    ELSE IF IsSpace(Head(s)) THEN LStrip(Tail(s)) ELSE s

RECURSIVE RStrip(_)
\* str.rstrip()
RStrip(s) ==
    IF s = <<>> THEN <<>>
    ELSE IF IsSpace(s[Len(s)]) THEN RStrip(SubSeq(s, 1, Len(s) - 1)) ELSE s

\* str.strip()
Strip(s) == RStrip(LStrip(s))

\* str.startswith(p)
StartsWith(s, p) == Len(s) >= Len(p) /\ SubSeq(s, 1, Len(p)) = p

\* p in s, for strings
Contains(s, p) ==
    \E i \in 1..(Len(s) - Len(p) + 1) : SubSeq(s, i, i + Len(p) - 1) = p

RECURSIVE Replace(_, _, _)
\* str.replace(old, new), old non-empty: leftmost, non-overlapping
Replace(s, old, new) ==
    IF s = <<>> THEN <<>>
    ELSE IF StartsWith(s, old)
         THEN new \o Replace(SubSeq(s, Len(old) + 1, Len(s)), old, new)
         ELSE <<Head(s)>> \o Replace(Tail(s), old, new)

\* the letters, upper case and lower case in the same order
UpperLetters ==
    <<"A", "B", "C", "D", "E", "F", "G", "H", "I", "J", "K", "L", "M",
      "N", "O", "P", "Q", "R", "S", "T", "U", "V", "W", "X", "Y", "Z">>

LowerLetters ==
    <<"a", "b", "c", "d", "e", "f", "g", "h", "i", "j", "k", "l", "m",
      "n", "o", "p", "q", "r", "s", "t", "u", "v", "w", "x", "y", "z">>

\* upper-case letter -> lower-case letter
LowerOf ==
    [c \in {UpperLetters[i] : i \in 1..Len(UpperLetters)} |->
        LowerLetters[CHOOSE i \in 1..Len(UpperLetters) : UpperLetters[i] = c]]

RECURSIVE Lower(_)
\* str.lower()
Lower(s) ==
    IF s = <<>> THEN <<>>
    ELSE <<IF Head(s) \in DOMAIN LowerOf THEN LowerOf[Head(s)] ELSE Head(s)>>
         \o Lower(Tail(s))

\* str.upper() of one character
UpperChar(c) ==
    IF \E u \in DOMAIN LowerOf : LowerOf[u] = c
    THEN CHOOSE u \in DOMAIN LowerOf : LowerOf[u] = c
    ELSE c

\* str.isalpha() of one character
IsAlpha(c) == c \in DOMAIN LowerOf \/ \E u \in DOMAIN LowerOf : LowerOf[u] = c

RECURSIVE Join(_, _)
\* sep.join(items)
Join(items, sep) ==
    IF items = <<>> THEN <<>>
    ELSE IF Len(items) = 1 THEN items[1]
    ELSE items[1] \o sep \o Join(Tail(items), sep)

RECURSIVE SplitOn(_, _)
\* str.split(c) for a one-character separator: always at least one field
SplitOn(s, c) ==
    IF \E i \in 1..Len(s) : s[i] = c
    THEN LET i == CHOOSE k \in 1..Len(s) : s[k] = c /\ \A j \in 1..(k - 1) : s[j] # c
         IN <<SubSeq(s, 1, i - 1)>> \o SplitOn(SubSeq(s, i + 1, Len(s)), c)
    ELSE <<s>>

RECURSIVE DropEmpty(_)
DropEmpty(fields) ==
    IF fields = <<>> THEN <<>>
    ELSE IF Head(fields) = <<>> THEN DropEmpty(Tail(fields))
    ELSE <<Head(fields)>> \o DropEmpty(Tail(fields))

\* str.split() with no argument: runs of whitespace separate, no empty words
Words(s) == DropEmpty(SplitOn(s, " "))

RECURSIVE Digits(_)
\* str(n) for a natural number n
Digits(n) ==
    LET d == <<"0", "1", "2", "3", "4", "5", "6", "7", "8", "9">>
    IN IF n < 10 THEN <<d[n + 1]>> ELSE Digits(n \div 10) \o <<d[(n % 10) + 1]>>

\* number of items of a sequence equal to x
Count(seq, x) == Cardinality({i \in 1..Len(seq) : seq[i] = x})

\* x in list
In(x, seq) == \E i \in 1..Len(seq) : seq[i] = x

RECURSIVE Dedup(_, _)
\* keep the first occurrence of every item, in order (seen is the set so far)
Dedup(seq, seen) ==
    IF seq = <<>> THEN <<>>
    ELSE IF Head(seq) \in seen THEN Dedup(Tail(seq), seen)
    ELSE <<Head(seq)>> \o Dedup(Tail(seq), seen \cup {Head(seq)})

(***************************************************************************)
(* The score tree, as far as the encoder reads it                          *)
(*                                                                         *)
(* An optional attribute is a sequence of length 0 or 1; a text that the   *)
(* code only tests for truthiness is empty when the attribute is None.     *)
(*   TimeSignature : [numerator, denominator]                              *)
(*   text element  : [cls, content]  (RehearsalMark or TextExpression)     *)
(*   ChordSymbol   : [figure, root, kind, kindText, bass]                  *)
(*   Chord         : [root, rootNote, pitches]  (stacked notes)            *)
(*   Barline/Repeat: [cls, location, style, direction, type]               *)
(*   Measure       : [ts, texts, symbols, chords, leftBarline,             *)
(*                    rightBarline, otherBars]                             *)
(*   Part          : [ts, measures, loose]                                 *)
(* otherBars are the barline elements of the measure that are neither its  *)
(* leftBarline nor its rightBarline; loose says that the part holds a      *)
(* chord outside its measures.                                             *)
(***************************************************************************)

\* str(v) of an attribute that may be None
PyStr(v) == IF v = <<>> THEN <<"N", "o", "n", "e">> ELSE v

\* f"T{int(ts.numerator)}{int(ts.denominator)}"
TsToken(ts) == <<"T">> \o Digits(ts.numerator) \o Digits(ts.denominator)

\* m.getElementsByClass(Barline): the measure's barline elements in stream
\* order (Repeat is a subclass of Barline)
ListedBarlines(m) == m.leftBarline \o m.otherBars \o m.rightBarline

\* m.getElementsByClass(Repeat)
ListedRepeats(m) == SelectSeq(ListedBarlines(m), LAMBDA b : b.cls = "Repeat")

\* _ts_for_measure: the measure's own time signature as a token, else empty
TsForMeasure(m) == IF m.ts = <<>> THEN <<>> ELSE TsToken(m.ts[1])

\* _detect_time_signature: the first TimeSignature of part.recurse(). A
\* measure at offset 0 sorts before a TimeSignature placed in the part at
\* offset 0, so the first measure's own signature comes first.
DetectTimeSignature(part) ==
    LET own == SelectSeq(part.measures, LAMBDA m : m.ts # <<>>)
    IN IF part.measures # <<>> /\ part.measures[1].ts # <<>>
       THEN TsToken(part.measures[1].ts[1])
       ELSE IF part.ts # <<>> THEN TsToken(part.ts[1])
       ELSE IF own # <<>> THEN TsToken(own[1].ts[1])
       ELSE <<>>

\* _rehearsal_token: '*' and the upper-cased first character of the first
\* rehearsal mark's label, when that character is a letter
RehearsalToken(m) ==
    LET rms == SelectSeq(m.texts, LAMBDA t : t.cls = "RehearsalMark")
        label == IF rms = <<>> THEN <<>> ELSE Strip(rms[1].content)
    IN IF label = <<>> THEN <<>>
       ELSE LET ch == UpperChar(label[1])
            IN IF IsAlpha(ch) THEN <<"*", ch>> ELSE <<>>

\* the candidates list of _ending_token and of the pre-scan: every non-empty
\* text attribute met in m.recurse()
TextCandidates(m) ==
    LET nonEmpty == SelectSeq(m.texts, LAMBDA t : t.content # <<>>)
    IN [i \in 1..Len(nonEmpty) |-> nonEmpty[i].content]

RECURSIVE EndingOf(_)
\* the loop over candidates in _ending_token: the first text starting with
\* 1, 2 or 3 decides
EndingOf(cands) ==
    IF cands = <<>> THEN <<>>
    ELSE LET c == Strip(Head(cands))
         IN IF StartsWith(c, <<"1">>) THEN <<"N", "1">>
            ELSE IF StartsWith(c, <<"2">>) THEN <<"N", "2">>
            ELSE IF StartsWith(c, <<"3">>) THEN <<"N", "3">>
            ELSE EndingOf(Tail(cands))

\* _ending_token
EndingToken(m) == EndingOf(TextCandidates(m))

\* the pre-scan's own ending test (et)
HasEndingText(m) ==
    \E i \in 1..Len(TextCandidates(m)) :
        LET c == Strip(TextCandidates(m)[i])
        IN StartsWith(c, <<"1">>) \/ StartsWith(c, <<"2">>) \/ StartsWith(c, <<"3">>)


(***************************************************************************)
(* Staff-text cues                                                         *)
(***************************************************************************)

\* the recognized table of _staff_text_tokens, in dictionary order
Recognized ==
    << [key |-> <<"D", ".", "C", ".", " ", "a", "l", " ", "F", "i", "n", "e">>,
        token |-> <<"<", "D", ".", "C", ".", " ", "a", "l", " ", "F", "i", "n", "e", ">">>],
       [key |-> <<"D", "C", " ", "a", "l", " ", "F", "i", "n", "e">>,
        token |-> <<"<", "D", ".", "C", ".", " ", "a", "l", " ", "F", "i", "n", "e", ">">>],
       [key |-> <<"D", ".", "C", ".", " ", "a", "l", " ", "C", "o", "d", "a">>,
        token |-> <<"<", "D", ".", "C", ".", " ", "a", "l", " ", "C", "o", "d", "a", ">">>],
       [key |-> <<"D", "C", " ", "a", "l", " ", "C", "o", "d", "a">>,
        token |-> <<"<", "D", ".", "C", ".", " ", "a", "l", " ", "C", "o", "d", "a", ">">>],
       [key |-> <<"D", ".", "S", ".", " ", "a", "l", " ", "F", "i", "n", "e">>,
        token |-> <<"<", "D", ".", "S", ".", " ", "a", "l", " ", "F", "i", "n", "e", ">">>],
       [key |-> <<"D", "S", " ", "a", "l", " ", "F", "i", "n", "e">>,
        token |-> <<"<", "D", ".", "S", ".", " ", "a", "l", " ", "F", "i", "n", "e", ">">>],
       [key |-> <<"D", ".", "S", ".", " ", "a", "l", " ", "C", "o", "d", "a">>,
        token |-> <<"<", "D", ".", "S", ".", " ", "a", "l", " ", "C", "o", "d", "a", ">">>],
       [key |-> <<"D", "S", " ", "a", "l", " ", "C", "o", "d", "a">>,
        token |-> <<"<", "D", ".", "S", ".", " ", "a", "l", " ", "C", "o", "d", "a", ">">>],
       [key |-> <<"F", "i", "n", "e">>, token |-> <<"<", "F", "i", "n", "e", ">">>],
       [key |-> <<"C", "o", "d", "a">>, token |-> <<"<", "C", "o", "d", "a", ">">>] >>

RECURSIVE MatchesOf(_, _)
\* the inner loop leaving at the first phrase found
MatchesOf_FirstOnly(lc, entries) ==
    LET hits == SelectSeq(entries, LAMBDA e : Contains(lc, Lower(e.key)))
    IN IF hits = <<>> THEN <<>> ELSE <<hits[1].token>>

\* the inner loop over recognized.items() for one lower-cased text: the
\* tokens of the phrases it contains, in table order (entries is the rest of
\* the table)
MatchesOf(lc, entries) ==
    IF entries = <<>> THEN <<>>
    ELSE (IF Contains(lc, Lower(Head(entries).key)) THEN <<Head(entries).token>> ELSE <<>>)
         \o MatchesOf(lc, Tail(entries))

RECURSIVE StaffMatches(_)
\* the outer loop of _staff_text_tokens over the measure's elements: the
\* first truthy text attribute of each is searched; an element without one
\* is searched by its repr, which holds none of the phrases
StaffMatches(texts) ==
    IF texts = <<>> THEN <<>>
    ELSE (IF Head(texts).content = <<>> THEN <<>>
          ELSE MatchesOf(Lower(Head(texts).content), Recognized))
         \o StaffMatches(Tail(texts))

\* _staff_text_tokens: the matches, deduplicated in order of discovery
StaffTextTokens(m) == Dedup(StaffMatches(m.texts), {})

(***************************************************************************)
(* Barline prefix and suffix tokens                                        *)
(***************************************************************************)

\* _norm_lower on a text attribute (None gives the empty string)
NormLower(value) == IF value = <<>> THEN <<>> ELSE Lower(value)

\* _norm_style without the change of underscores into hyphens
NormStyle_Underscores(style) ==
    Replace(Lower(style),
            <<"b", "a", "r", "l", "i", "n", "e", "s", "t", "y", "l", "e", ".">>, <<>>)

\* _norm_style
NormStyle(style) ==
    Replace(Replace(Lower(style),
                    <<"b", "a", "r", "l", "i", "n", "e", "s", "t", "y", "l", "e", ".">>, <<>>),
            <<"_">>, <<"-">>)

\* _norm_location
NormLocation(loc) ==
    Replace(Lower(loc),
            <<"b", "a", "r", "l", "i", "n", "e", "l", "o", "c", "a", "t", "i", "o", "n", ".">>,
            <<>>)

L_left == <<"l", "e", "f", "t">>
L_right == <<"r", "i", "g", "h", "t">>
D_forward == <<"f", "o", "r", "w", "a", "r", "d">>
D_start == <<"s", "t", "a", "r", "t">>
D_backward == <<"b", "a", "c", "k", "w", "a", "r", "d">>
D_end == <<"e", "n", "d">>
S_light_light == <<"l", "i", "g", "h", "t", "-", "l", "i", "g", "h", "t">>
S_heavy_light == <<"h", "e", "a", "v", "y", "-", "l", "i", "g", "h", "t">>
S_light_heavy == <<"l", "i", "g", "h", "t", "-", "h", "e", "a", "v", "y">>
Y_final == <<"f", "i", "n", "a", "l">>

\* ListedBars with a change: as if _norm_lower were defined before the loops,
\* every listed barline is read, with its own location as the hint
ListedBars_Read(m) ==
    [k \in 1..Len(m.leftBarline \o m.otherBars \o m.rightBarline) |->
        [bl |-> (m.leftBarline \o m.otherBars \o m.rightBarline)[k],
         hint |-> Lower((m.leftBarline \o m.otherBars \o m.rightBarline)[k].location)]]

\* the first two loops of _barline_tokens, over the measure's listed
\* barlines and repeats. Their body calls _norm_lower, a local function that
\* is defined only further down: the first iteration raises
\* UnboundLocalError before anything is appended, and the except clause
\* swallows it. With no listed barline the loops do not run at all.
ListedBars(m) ==
    IF ListedBarlines(m) # <<>> THEN <<>> ELSE <<>>

\* the bars list of _barline_tokens: pairs of a marker and its location hint
BarsOf(m) ==
    ListedBars(m)
    \o (IF m.leftBarline # <<>> THEN <<[bl |-> m.leftBarline[1], hint |-> L_left]>> ELSE <<>>)
    \o (IF m.rightBarline # <<>> THEN <<[bl |-> m.rightBarline[1], hint |-> L_right]>> ELSE <<>>)

\* the body of the loop over bars: the tokens one marker adds to (prefix, suffix)
BarTokensStep(ps, bar) ==
    LET style == NormStyle(NormLower(bar.bl.style))
        loc == NormLocation(IF bar.hint # <<>> THEN bar.hint ELSE NormLower(bar.bl.location))
        repeat_dir == NormLower(bar.bl.direction)
        p1 == IF loc = L_left /\ (repeat_dir \in {D_forward, D_start} \/ style = S_heavy_light)
                 /\ ~In(<<"{">>, ps.prefix)
              THEN Append(ps.prefix, <<"{">>) ELSE ps.prefix
        p2 == IF loc = L_left /\ style = S_light_light /\ ~In(<<"[">>, p1)
              THEN Append(p1, <<"[">>) ELSE p1
        s1 == IF loc = L_right /\ (repeat_dir \in {D_backward, D_end} \/ style = S_light_heavy)
                 /\ ~In(<<"}">>, ps.suffix)
              THEN Append(ps.suffix, <<"}">>) ELSE ps.suffix
        s2 == IF loc = L_right /\ style = S_light_light /\ ~In(<<"]">>, s1)
              THEN Append(s1, <<"]">>) ELSE s1
    IN [prefix |-> p2, suffix |-> s2]

RECURSIVE BarTokensFold(_, _)
BarTokensFold(ps, bars) ==
    IF bars = <<>> THEN ps
    ELSE BarTokensFold(BarTokensStep(ps, Head(bars)), Tail(bars))

\* _barline_tokens: (prefix, suffix)
BarlineTokens(m) == BarTokensFold([prefix |-> <<>>, suffix |-> <<>>], BarsOf(m))

(***************************************************************************)
(* Chord tokens of a measure                                               *)
(***************************************************************************)

\* the token of one chord symbol in _measure_chords (empty: no token). An
\* empty root stands for el.root() raising, an empty kind for kind None.
SymbolToken(el) ==
    LET fig == Strip(el.figure)
        base == IF fig # <<>> THEN Replace(fig, <<"-">>, <<"b">>)
                ELSE IF el.root # <<>> THEN Strip(el.root \o el.kind)
                ELSE <<>>
        modifier == IF el.kind = <<>> THEN <<>> ELSE Strip(el.kindText)
        withMod == IF base # <<>> /\ modifier # <<>> /\ ~Contains(base, modifier)
                   THEN base \o <<" ">> \o modifier ELSE base
        root_name == Replace(el.root, <<"-">>, <<"b">>)
        bass_name == Replace(el.bass, <<"-">>, <<"b">>)
    IN IF el.root # <<>> /\ withMod # <<>> /\ bass_name # <<>>
          /\ ~Contains(withMod, <<"/">>)
          /\ Lower(bass_name) # Lower(root_name)
       THEN withMod \o <<"/">> \o bass_name
       ELSE withMod

\* the diatonic step of a pitch name, counted from C
StepNum(name) ==
    CHOOSE k \in 1..7 : <<"C", "D", "E", "F", "G", "A", "B">>[k] = name[1]

\* the pitches of a chord from the lowest to the highest (pitches of one octave)
SortAscending(pitches) == SortSeq(pitches, LAMBDA a, b : StepNum(a) < StepNum(b))

\* AfterSortAscending with a fault: the chord is sorted in place
AfterSortAscending_InPlace(el) == [el EXCEPT !.pitches = SortAscending(el.pitches)]

\* the chord after el.sortAscending(): the method returns a sorted copy by
\* default (inPlace=False), the code drops it, and the chord is as before
AfterSortAscending(el) == el

\* the root name found for a stacked chord: root(), else rootNote, else the
\* name of pitches[0] after the sortAscending() call (empty: none found)
StackedRoot(el) ==
    IF el.root # <<>> THEN el.root
    ELSE IF el.rootNote # <<>> THEN el.rootNote
    ELSE IF AfterSortAscending(el).pitches # <<>> THEN AfterSortAscending(el).pitches[1]
    ELSE <<>>

\* the chord as one pass of the loop over the stacked chords leaves it
AfterRootSearch(el) ==
    IF el.root = <<>> /\ el.rootNote = <<>> THEN AfterSortAscending(el) ELSE el

\* the token of one stacked chord (empty: no root found)
StackedToken(el) == Replace(StackedRoot(el), <<"-">>, <<"b">>)

RECURSIVE SymbolTokens(_)
\* symbol_tokens: the tokens of the measure's chord symbols, those without a
\* token left out
SymbolTokens(symbols) ==
    IF symbols = <<>> THEN <<>>
    ELSE (IF SymbolToken(Head(symbols)) # <<>> THEN <<SymbolToken(Head(symbols))>> ELSE <<>>)
         \o SymbolTokens(Tail(symbols))

RECURSIVE StackedTokens(_)
\* the tokens of the measure's stacked chords, those without a root left out
StackedTokens(chords) ==
    IF chords = <<>> THEN <<>>
    ELSE (IF StackedToken(Head(chords)) # <<>> THEN <<StackedToken(Head(chords))>> ELSE <<>>)
         \o StackedTokens(Tail(chords))

\* DedupSymbols with a fault: every token is kept
DedupSymbols_KeepAll(symbol_tokens) == symbol_tokens

\* the deduplication of the symbol tokens (the seen set)
DedupSymbols(symbol_tokens) == Dedup(symbol_tokens, {})

\* the deduplication of the stacked roots (tok not in tokens)
DedupStacked(toks) == Dedup(toks, {})

\* _measure_chords
MeasureChords(m) ==
    LET symbol_tokens == SymbolTokens(m.symbols)
    IN IF symbol_tokens # <<>>
       THEN DedupSymbols(symbol_tokens)
       ELSE DedupStacked(StackedTokens(m.chords))

\* the measure as _measure_chords leaves it: the loop over the stacked
\* chords runs only when the chord symbols gave no token
MeasureAfterChords(m) ==
    IF SymbolTokens(m.symbols) # <<>> THEN m
    ELSE [m EXCEPT !.chords = [k \in 1..Len(m.chords) |-> AfterRootSearch(m.chords[k])]]


(***************************************************************************)
(* _build_progression: pre-scan                                            *)
(* Measure indices are those of the code: 0 .. len(measures) - 1.          *)
(***************************************************************************)

\* measures[i]
MeasureAt(measures, i) == measures[i + 1]

\* the pre-scan's test of one measure for a backward repeat at its right edge
HasBackwardRepeat(m) ==
    \E k \in 1..Len(ListedRepeats(m)) :
        LET rep == ListedRepeats(m)[k]
        IN /\ Lower(PyStr(rep.direction)) \in {D_end, D_backward}
           /\ Lower(PyStr(rep.location)) = L_right

RECURSIVE IndicesFrom(_, _)
\* the indices i >= from with flags[i + 1] true, ascending (flags holds one
\* truth value per measure)
IndicesFrom(flags, from) ==
    IF from >= Len(flags) THEN <<>>
    ELSE (IF flags[from + 1] THEN <<from>> ELSE <<>>) \o IndicesFrom(flags, from + 1)

\* ending_indices after the pre-scan
EndingIndices(measures) ==
    IndicesFrom([k \in 1..Len(measures) |-> HasEndingText(measures[k])], 0)

\* backward_repeat_index after the pre-scan: the first measure with a
\* backward repeat, -1 when there is none
BackwardRepeatIndex(measures) ==
    LET found == IndicesFrom([k \in 1..Len(measures) |-> HasBackwardRepeat(measures[k])], 0)
    IN IF found = <<>> THEN -1 ELSE found[1]

\* the test that stops the synthesis: a right barline whose type holds "final"
HasFinalRight(m) ==
    /\ m.rightBarline # <<>>
    /\ Contains(Lower(PyStr(m.rightBarline[1].type)), Y_final)

\* the key written for index j: f"N{n}" with n counting from 1
SyntheticToken(n) == <<"N">> \o Digits(n)

\* synthetic_endings without the stop at a final barline
SyntheticEndings_NoStop(measures, ending_indices, backward_repeat_index) ==
    IF ending_indices = <<>> /\ backward_repeat_index >= 0
    THEN [j \in (backward_repeat_index + 1)..(Len(measures) - 1) |->
            SyntheticToken(j - backward_repeat_index)]
    ELSE [j \in {} |-> <<>>]

\* synthetic_endings computed also when some measure has an ending text
SyntheticEndings_WithTexts(measures, ending_indices, backward_repeat_index) ==
    IF backward_repeat_index >= 0
    THEN LET first == backward_repeat_index + 1
             finals == IndicesFrom([k \in 1..Len(measures) |-> HasFinalRight(measures[k])],
                                   first)
             last == IF finals = <<>> THEN Len(measures) - 1 ELSE finals[1]
         IN [j \in first..last |-> SyntheticToken(j - backward_repeat_index)]
    ELSE [j \in {} |-> <<>>]

\* synthetic_endings: a function from measure indices to ending tokens
SyntheticEndings(measures, ending_indices, backward_repeat_index) ==
    IF ending_indices = <<>> /\ backward_repeat_index >= 0
    THEN LET first == backward_repeat_index + 1
             finals == IndicesFrom([k \in 1..Len(measures) |-> HasFinalRight(measures[k])],
                                   first)
             last == IF finals = <<>> THEN Len(measures) - 1 ELSE finals[1]
         IN [j \in first..last |-> SyntheticToken(j - backward_repeat_index)]
    ELSE [j \in {} |-> <<>>]

(***************************************************************************)
(* _build_progression: one pass of the main loop                           *)
(***************************************************************************)

\* the time-signature step without the comparison with last_ts
TsEmitted_Always(meas, last_ts) == TsForMeasure(meas)

\* the time-signature token this measure emits (empty: none)
TsEmitted(meas, last_ts) ==
    LET ts_here == TsForMeasure(meas)
    IN IF ts_here # <<>> /\ ts_here # last_ts THEN ts_here ELSE <<>>

\* ending_tok: the explicit token, else the synthetic one of this index
EndingTok(meas, i, synthetic) ==
    IF EndingToken(meas) # <<>> THEN EndingToken(meas)
    ELSE IF i \in DOMAIN synthetic THEN synthetic[i]
    ELSE <<>>

\* PrefixTokens with a fault: the forced '{' ignores added_forward_repeat
PrefixTokens_Unflagged(meas, i, fallback_repeat_needed, added_forward) ==
    IF fallback_repeat_needed /\ i = 0
    THEN Append(BarlineTokens(meas).prefix, <<"{">>)
    ELSE BarlineTokens(meas).prefix

\* pre after the fallback: '{' is forced on the first measure when endings
\* exist and no forward repeat was added yet
PrefixTokens(meas, i, fallback_repeat_needed, added_forward) ==
    LET pre == BarlineTokens(meas).prefix
        added == added_forward \/ In(<<"{">>, pre)
    IN IF fallback_repeat_needed /\ ~added /\ i = 0
       THEN Append(pre, <<"{">>) ELSE pre

\* SuffixTokens with a fault: the forced '}' is put on the first ending
\* measure itself instead of the measure before it
SuffixTokens_OnEnding(meas, i, fallback_repeat_needed, first_ending_index, added_backward) ==
    IF fallback_repeat_needed /\ ~(added_backward \/ In(<<"}">>, BarlineTokens(meas).suffix))
       /\ first_ending_index >= 1 /\ i = first_ending_index
    THEN Append(BarlineTokens(meas).suffix, <<"}">>)
    ELSE BarlineTokens(meas).suffix

\* post after the fallback: '}' is forced on the measure before the first
\* ending when no backward repeat was added yet
SuffixTokens(meas, i, fallback_repeat_needed, first_ending_index, added_backward) ==
    LET post == BarlineTokens(meas).suffix
        added == added_backward \/ In(<<"}">>, post)
    IN IF fallback_repeat_needed /\ ~added /\ first_ending_index >= 1
          /\ i = first_ending_index - 1
       THEN Append(post, <<"}">>) ELSE post

\* the bar token appended after the measure's chords
BarToken == <<"|">>

\* one pass of the loop with the bar token appended before the chords
MeasureItems_BarFirst(meas, i, last_ts, synthetic, fallback_repeat_needed, first_ending_index, added_forward, added_backward) ==
    LET ts == TsEmitted(meas, last_ts)
        reh == RehearsalToken(meas)
        ending_tok == EndingTok(meas, i, synthetic)
        chords == MeasureChords(meas)
    IN (IF ts # <<>> THEN <<ts>> ELSE <<>>)
       \o (IF reh # <<>> THEN <<reh>> ELSE <<>>)
       \o (IF ending_tok # <<>> THEN <<ending_tok>> ELSE <<>>)
       \o StaffTextTokens(meas)
       \o PrefixTokens(meas, i, fallback_repeat_needed, added_forward)
       \o <<BarToken>>
       \o (IF chords # <<>> THEN <<Join(chords, <<" ">>)>> ELSE <<>>)
       \o SuffixTokens(meas, i, fallback_repeat_needed, first_ending_index, added_backward)

\* the items one pass appends to lines, in the order of the code
MeasureItems(meas, i, last_ts, synthetic, fallback_repeat_needed, first_ending_index, added_forward, added_backward) ==
    LET ts == TsEmitted(meas, last_ts)
        reh == RehearsalToken(meas)
        ending_tok == EndingTok(meas, i, synthetic)
        chords == MeasureChords(meas)
    IN (IF ts # <<>> THEN <<ts>> ELSE <<>>)
       \o (IF reh # <<>> THEN <<reh>> ELSE <<>>)
       \o (IF ending_tok # <<>> THEN <<ending_tok>> ELSE <<>>)
       \o StaffTextTokens(meas)
       \o PrefixTokens(meas, i, fallback_repeat_needed, added_forward)
       \o (IF chords # <<>> THEN <<Join(chords, <<" ">>)>> ELSE <<>>)
       \o <<BarToken>>
       \o SuffixTokens(meas, i, fallback_repeat_needed, first_ending_index, added_backward)

(***************************************************************************)
(* _build_progression: the final bar and the joined text                   *)
(***************************************************************************)

\* FinalBar with a fault: only a '|' that is the very last item is rewritten,
\* so suffix tokens after the last bar hide it and a second bar is appended
FinalBar_LastItemOnly(ls) ==
    IF ls = <<>> THEN ls
    ELSE IF ls[Len(ls)] = <<"|">> THEN [ls EXCEPT ![Len(ls)] = <<"Z">>]
    ELSE Append(ls, <<"Z">>)

\* FinalBar with a fault: the first '|' is rewritten instead of the last
FinalBar_FirstBar(ls) ==
    IF ls = <<>> THEN ls
    ELSE IF In(<<"|">>, ls)
         THEN LET first == CHOOSE i \in 1..Len(ls) :
                               ls[i] = <<"|">> /\ \A j \in 1..(i - 1) : ls[j] # <<"|">>
              IN [ls EXCEPT ![first] = <<"Z">>]
         ELSE Append(ls, <<"Z">>)

\* the rewrite of the last '|' to 'Z' (appended when there is no '|'); an
\* empty list is left alone
FinalBar(ls) ==
    IF ls = <<>> THEN ls
    ELSE IF In(BarToken, ls)
         THEN LET last == CHOOSE i \in 1..Len(ls) :
                              ls[i] = BarToken /\ \A j \in (i + 1)..Len(ls) : ls[j] # BarToken
              IN [ls EXCEPT ![last] = <<"Z">>]
         ELSE Append(ls, <<"Z">>)

\* " ".join(lines).strip()
JoinLines(ls) == Strip(Join(ls, <<" ">>))



(***************************************************************************)
(* The URL builder: header fields                                          *)
(***************************************************************************)

\* TitleForIreal with a fault: only 'The ' in exactly this case is moved
TitleForIreal_CaseSensitive(title) ==
    LET t == Strip(title)
    IN IF t = <<>> THEN <<"U", "n", "t", "i", "t", "l", "e", "d">>
       ELSE IF StartsWith(t, <<"T", "h", "e", " ">>)
            THEN SubSeq(t, 5, Len(t)) \o <<",", " ", "T", "h", "e">>
            ELSE t

\* _title_for_ireal
TitleForIreal(title) ==
    LET t == Strip(title)
    IN IF t = <<>> THEN <<"U", "n", "t", "i", "t", "l", "e", "d">>
       ELSE IF StartsWith(Lower(t), <<"t", "h", "e", " ">>)
            THEN SubSeq(t, 5, Len(t)) \o <<",", " ", "T", "h", "e">>
            ELSE t

Unknown == <<"U", "n", "k", "n", "o", "w", "n">>

\* ComposerLastFirst with a fault: the words are joined in the given order
ComposerLastFirst_AsGiven(composer) ==
    IF Strip(composer) = <<>> THEN Unknown ELSE Join(Words(Strip(composer)), <<" ">>)

\* _composer_last_first
ComposerLastFirst(composer) ==
    LET name == Strip(composer)
        parts == Words(name)
    IN IF name = <<>> THEN Unknown
       ELSE IF Len(parts) = 1 THEN parts[1]
       ELSE Strip(parts[Len(parts)] \o <<" ">>
                  \o Join(SubSeq(parts, 1, Len(parts) - 1), <<" ">>))

\* style_text = (style or "Unknown").strip() or "Unknown"
StyleText(style) ==
    LET t == Strip(IF style = <<>> THEN Unknown ELSE style)
    IN IF t = <<>> THEN Unknown ELSE t

\* _detect_key_token on the name the key analysis gives (empty: the
\* analysis failed or gave no name)
DetectKeyToken(keyName) ==
    IF keyName = <<>> THEN <<"C">>
    ELSE LET name == Strip(keyName)
             is_minor == Contains(Lower(name), <<"m", "i", "n", "o", "r">>)
             tonic == Replace(Words(name)[1], <<"-">>, <<"b">>)
         IN IF is_minor THEN tonic \o <<"-">> ELSE tonic

Scheme == <<"i", "r", "e", "a", "l", "b", "o", "o", "k", ":", "/", "/">>

\* f"irealbook://{title}={composer}={style_text}={key_token}=n={progression}"
RawUrl(title, composer, style_text, key_token, prog) ==
    Scheme \o title \o <<"=">> \o composer \o <<"=">> \o style_text \o <<"=">>
    \o key_token \o <<"=", "n", "=">> \o prog

(***************************************************************************)
(* urllib.parse.quote(s, safe="") and unquote, on ASCII text               *)
(***************************************************************************)

\* the characters quote never escapes
Unreserved(c) ==
    \/ IsAlpha(c)
    \/ c \in {"0", "1", "2", "3", "4", "5", "6", "7", "8", "9", "_", ".", "-", "~"}

\* the reserved characters of the texts the model uses, with their codes
HexCodes ==
    << [ch |-> " ", hex |-> <<"2", "0">>], [ch |-> "#", hex |-> <<"2", "3">>],
       [ch |-> "%", hex |-> <<"2", "5">>], [ch |-> "&", hex |-> <<"2", "6">>],
       [ch |-> "*", hex |-> <<"2", "A">>],
       [ch |-> ",", hex |-> <<"2", "C">>], [ch |-> "/", hex |-> <<"2", "F">>],
       [ch |-> ":", hex |-> <<"3", "A">>], [ch |-> "<", hex |-> <<"3", "C">>],
       [ch |-> "=", hex |-> <<"3", "D">>], [ch |-> ">", hex |-> <<"3", "E">>],
       [ch |-> "[", hex |-> <<"5", "B">>], [ch |-> "]", hex |-> <<"5", "D">>],
       [ch |-> "{", hex |-> <<"7", "B">>], [ch |-> "|", hex |-> <<"7", "C">>],
       [ch |-> "}", hex |-> <<"7", "D">>] >>

\* the two hexadecimal digits of a reserved character
HexOf(c) == HexCodes[CHOOSE k \in 1..Len(HexCodes) : HexCodes[k].ch = c].hex

\* QuoteChar with a fault: '/' is treated as safe (the default of quote)
QuoteChar_SlashSafe(c) == IF Unreserved(c) \/ c = "/" THEN <<c>> ELSE <<"%">> \o HexOf(c)

\* one character, quoted
QuoteChar(c) == IF Unreserved(c) THEN <<c>> ELSE <<"%">> \o HexOf(c)

RECURSIVE Quote(_)
\* quote(s, safe="")
Quote(s) == IF s = <<>> THEN <<>> ELSE QuoteChar(Head(s)) \o Quote(Tail(s))

RECURSIVE Unquote(_)
\* unquote(s): every %XX escape is decoded, anything else is kept
Unquote(s) ==
    IF s = <<>> THEN <<>>
    ELSE IF Head(s) = "%" /\ Len(s) >= 3
            /\ \E k \in 1..Len(HexCodes) : HexCodes[k].hex = <<s[2], s[3]>>
         THEN <<HexCodes[CHOOSE k \in 1..Len(HexCodes) : HexCodes[k].hex = <<s[2], s[3]>>].ch>>
              \o Unquote(SubSeq(s, 4, Len(s)))
         ELSE <<Head(s)>> \o Unquote(Tail(s))

\* html.escape(s), one character
EscapeChar(c) ==
    IF c = "&" THEN <<"&", "a", "m", "p", ";">>
    ELSE IF c = "<" THEN <<"&", "l", "t", ";">>
    ELSE IF c = ">" THEN <<"&", "g", "t", ";">>
    ELSE IF c = "\"" THEN <<"&", "q", "u", "o", "t", ";">>
    ELSE IF c = "'" THEN <<"&", "#", "x", "2", "7", ";">>
    ELSE <<c>>

RECURSIVE HtmlEscape(_)
\* html.escape(s)
HtmlEscape(s) == IF s = <<>> THEN <<>> ELSE EscapeChar(Head(s)) \o HtmlEscape(Tail(s))

\* the title score_to_irealpro_html_link reads back from the URL
TitleFromUrl(url) ==
    LET decoded == Unquote(url)
        payload == SubSeq(decoded, Len(Scheme) + 1, Len(decoded))
        first == SplitOn(payload, "=")[1]
    IN IF first # <<>> THEN first ELSE <<"U", "n", "t", "i", "t", "l", "e", "d">>

\* f'<a href="{url}">{title}</a>' for a title already escaped
AnchorTag(url, text) ==
    <<"<", "a", " ", "h", "r", "e", "f", "=", "\"">> \o url \o <<"\"", ">">>
    \o text \o <<"<", "/", "a", ">">>

\* what score_to_irealpro_html_link returns for the URL it was given
HtmlLink(url) == AnchorTag(url, HtmlEscape(TitleFromUrl(url)))

\* whether a part holds a chord anywhere (a chord symbol is a chord too)
HasChord(p) ==
    \/ p.loose
    \/ \E k \in 1..Len(p.measures) :
           p.measures[k].symbols # <<>> \/ p.measures[k].chords # <<>>

\* targets = list(score.parts) or [score]
Targets(score) == IF score.parts # <<>> THEN score.parts ELSE <<score.own>>

\* FirstWithChord with a fault: the loop does not stop at the first match,
\* so the last part holding a chord is taken
FirstWithChord_Last(targets) ==
    IF \E k \in 1..Len(targets) : HasChord(targets[k])
    THEN (CHOOSE k \in 1..Len(targets) :
              HasChord(targets[k]) /\ \A j \in (k + 1)..Len(targets) : ~HasChord(targets[j])) - 1
    ELSE -1

\* the loop over targets: the index of the first one holding a chord, -1
\* when there is none
FirstWithChord(targets) ==
    IF \E k \in 1..Len(targets) : HasChord(targets[k])
    THEN (CHOOSE k \in 1..Len(targets) :
              HasChord(targets[k]) /\ \A j \in 1..(k - 1) : ~HasChord(targets[j])) - 1
    ELSE -1

\* the message of the ValueError
NoChordsError == "No chords found in the score."

\* EmptyProgression with a fault: the guard is missing
EmptyProgression_Unchecked(prog) == FALSE

\* 'if not progression'
EmptyProgression(prog) == prog = <<>>

(***************************************************************************)
(* The scores the model is run on                                          *)
(***************************************************************************)

\* the longest part of the general specification, in measures
MaxMeasures == 3

NoMarker == <<>>

Repeat(location, direction, type) ==
    [cls |-> "Repeat", location |-> location, style |-> <<>>, direction |-> direction,
     type |-> type]

Barline(location, style, type) ==
    [cls |-> "Barline", location |-> location, style |-> style, direction |-> <<>>,
     type |-> type]

Y_double == <<"d", "o", "u", "b", "l", "e">>
RepStartL == Repeat(L_left, D_start, S_heavy_light)
RepEndR == Repeat(L_right, D_end, Y_final)
DoubleL == Barline(L_left, S_light_light, Y_double)
DoubleR == Barline(L_right, S_light_light, Y_double)
HeavyLightL == Barline(L_left, S_heavy_light, S_heavy_light)
LightHeavyR == Barline(L_right, S_light_heavy, Y_final)
FinalR == Barline(L_right, <<>>, Y_final)

Symbol(figure, root) ==
    [figure |-> figure, root |-> root, kind |-> <<"m", "a", "j", "o", "r">>,
     kindText |-> <<>>, bass |-> root]

\* a stacked chord with root() found; its pitches start with the root
Stacked(root) == [root |-> root, rootNote |-> <<>>, pitches |-> <<root, <<"A">>>>]

\* a stacked chord for which neither root() nor rootNote gives a name
Rootless(pitches) == [root |-> <<>>, rootNote |-> <<>>, pitches |-> pitches]

Text(content) == [cls |-> "TextExpression", content |-> content]
Rehearsal(content) == [cls |-> "RehearsalMark", content |-> content]

TS(n, d) == [numerator |-> n, denominator |-> d]

\* a measure with nothing in it
Plain ==
    [ts |-> <<>>, texts |-> <<>>, symbols |-> <<>>, chords |-> <<>>,
     leftBarline |-> NoMarker, rightBarline |-> NoMarker, otherBars |-> <<>>]

SymC == Symbol(<<"C">>, <<"C">>)
SymF == Symbol(<<"F">>, <<"F">>)
SymG7 == Symbol(<<"G", "7">>, <<"G">>)

\* the measures of the general specification: each brings one feature of
\* the encoder into play, the last ones several at once
MeasureSet ==
    { [Plain EXCEPT !.symbols = <<SymC>>],
      Plain,
      [Plain EXCEPT !.symbols = <<SymF>>, !.texts = <<Text(<<"1", ".">>)>>],
      [Plain EXCEPT !.symbols = <<SymG7>>, !.texts = <<Text(<<" ", "2", ".">>)>>],
      [Plain EXCEPT !.symbols = <<SymC>>, !.leftBarline = <<RepStartL>>],
      [Plain EXCEPT !.symbols = <<SymG7>>, !.rightBarline = <<RepEndR>>],
      [Plain EXCEPT !.symbols = <<SymC>>, !.rightBarline = <<FinalR>>],
      [Plain EXCEPT !.symbols = <<SymF>>, !.leftBarline = <<DoubleL>>,
                    !.rightBarline = <<DoubleR>>],
      [Plain EXCEPT !.symbols = <<SymF>>, !.leftBarline = <<HeavyLightL>>,
                    !.rightBarline = <<LightHeavyR>>],
      [Plain EXCEPT !.ts = <<TS(3, 4)>>, !.symbols = <<SymC, SymG7, SymC>>],
      [Plain EXCEPT !.texts = <<Rehearsal(<<"a">>)>>,
                    !.chords = <<Stacked(<<"B", "-">>), Stacked(<<"B", "-">>)>>],
      [Plain EXCEPT !.texts = <<Text(<<"D", ".", "C", ".", " ", "a", "l", " ", "F", "i", "n", "e">>)>>],
      [Plain EXCEPT !.symbols = <<SymC>>, !.otherBars = <<RepStartL, RepEndR>>],
      [Plain EXCEPT !.symbols = <<SymG7>>, !.texts = <<Text(<<"1", ".">>)>>,
                    !.leftBarline = <<RepStartL>>, !.rightBarline = <<RepEndR>>] }

\* the sequences over S of length at most n
SeqsUpTo(S, n) == UNION {[1..k -> S] : k \in 0..n}

\* the parts of the general specification
PartSet ==
    {[ts |-> t, measures |-> ms, loose |-> FALSE] :
        t \in {<<>>, <<TS(4, 4)>>}, ms \in SeqsUpTo(MeasureSet, MaxMeasures)}

(***************************************************************************)
(* More inputs: long parts, single measures, whole scores                  *)
(***************************************************************************)

\* the longest part of the long-part specification, in measures
MaxLongMeasures == 5

\* its measures: a chord, a backward repeat, a final barline, an ending text
LongMeasureSet ==
    { [Plain EXCEPT !.symbols = <<SymC>>],
      [Plain EXCEPT !.symbols = <<SymG7>>, !.rightBarline = <<RepEndR>>],
      [Plain EXCEPT !.symbols = <<SymF>>, !.rightBarline = <<FinalR>>],
      [Plain EXCEPT !.symbols = <<SymF>>, !.texts = <<Text(<<"2", ".">>)>>] }

LongPartSet ==
    {[ts |-> <<>>, measures |-> ms, loose |-> FALSE] :
        ms \in SeqsUpTo(LongMeasureSet, MaxLongMeasures)}

\* the measures of the parts encoded twice: stacked chords whose root search
\* reaches sortAscending() (alone, and beside a chord symbol), a stacked
\* chord with a root, a time signature change, an ending text
TwiceMeasureSet ==
    { [Plain EXCEPT !.chords = <<Rootless(<< <<"G">>, <<"E", "-">>, <<"C">> >>)>>],
      [Plain EXCEPT !.symbols = <<SymF>>, !.chords = <<Rootless(<< <<"G">>, <<"C">> >>)>>],
      [Plain EXCEPT !.chords = <<Stacked(<<"B", "-">>), Rootless(<< <<"A">>, <<"D">> >>)>>],
      [Plain EXCEPT !.ts = <<TS(3, 4)>>, !.symbols = <<SymC>>],
      [Plain EXCEPT !.symbols = <<SymG7>>, !.texts = <<Text(<<"1", ".">>)>>],
      Plain }

TwicePartSet ==
    {[ts |-> t, measures |-> ms, loose |-> FALSE] :
        t \in {<<>>, <<TS(4, 4)>>}, ms \in SeqsUpTo(TwiceMeasureSet, MaxMeasures)}

\* the most chord symbols, and the most stacked chords, of a measure handed
\* to _measure_chords alone
MaxSymbols == 3
MaxStacked == 2

\* chord symbols: plain, with a flat in the figure, without a figure, with a
\* modifier, with a bass note, and one that yields no token
SymbolSet ==
    { SymC,
      Symbol(<<"B", "-", "7">>, <<"B", "-">>),
      [Symbol(<<>>, <<"E", "-">>) EXCEPT !.kind = <<"m">>],
      [SymC EXCEPT !.kindText = <<"a", "d", "d", " ", "b", "1", "3">>],
      [SymC EXCEPT !.bass = <<"E", "-">>],
      [Symbol(<<>>, <<>>) EXCEPT !.bass = <<>>] }

\* stacked chords: with a root, with a flat root, with pitches only (stored
\* from the highest to the lowest), with nothing
StackedSet ==
    { Stacked(<<"C">>), Stacked(<<"B", "-">>),
      Rootless(<< <<"G">>, <<"E", "-">> >>),
      Rootless(<<>>) }

ChordMeasureSet ==
    {[Plain EXCEPT !.symbols = sy, !.chords = ch] :
        sy \in SeqsUpTo(SymbolSet, MaxSymbols), ch \in SeqsUpTo(StackedSet, MaxStacked)}

\* the most parts of a score
MaxParts == 2

EmptyPart == [ts |-> <<>>, measures |-> <<>>, loose |-> FALSE]

\* parts of the scores: without chords, with chord symbols, with an ending
\* text, with stacked chords, and with chords outside any measure (with and
\* without a time signature)
ScorePartSet ==
    { [EmptyPart EXCEPT !.measures = <<Plain>>],
      [EmptyPart EXCEPT !.measures = <<[Plain EXCEPT !.symbols = <<SymC>>]>>],
      [EmptyPart EXCEPT !.ts = <<TS(4, 4)>>,
                        !.measures = << [Plain EXCEPT !.symbols = <<SymF>>],
                                        [Plain EXCEPT !.symbols = <<SymG7>>,
                                                      !.texts = <<Text(<<"1", ".">>)>>] >>],
      [EmptyPart EXCEPT !.measures = <<[Plain EXCEPT !.chords = <<Stacked(<<"B", "-">>)>>]>>],
      [EmptyPart EXCEPT !.loose = TRUE],
      [EmptyPart EXCEPT !.loose = TRUE, !.ts = <<TS(3, 4)>>] }

TitleSet ==
    { <<>>,
      <<"T", "h", "e", " ", "S", "u", "n">>,
      <<"A", "=", "B">>,
      <<"R", "&", "B">>,
      <<"5", "%", "3", "D">> }

ComposerSet == { <<>>, <<"J", "o", "h", "n", " ", "C", "o", "l", "t", "r", "a", "n", "e">> }

StyleSet == { <<>>, <<"J", "a", "z", "z">> }

KeyNameSet == { <<>>, <<"B", "-", " ", "m", "i", "n", "o", "r">> }

\* metadata titles: padding, an article in several letter cases (or a word
\* that only starts like one), and the rest of the title
TitleInputs ==
    {pad \o head \o rest :
        pad \in {<<>>, <<" ">>},
        head \in { <<"T", "h", "e", " ">>, <<"t", "h", "e", " ">>, <<"T", "H", "E", " ">>,
                   <<"t", "H", "e", " ">>, <<"T", "h", "e">>, <<"T", "h", "e", "n", " ">>,
                   <<"A", " ">>, <<>> },
        rest \in { <<>>, <<"S", "u", "n">>, <<" ", "S", "u", "n">>, <<"E", "n", "d", " ">> }}

\* the most words of a composer's name
MaxWords == 3

WordSet == { <<"J", "o", "h", "n">>, <<"v", "a", "n">>, <<"C", "o", "l", "t", "r", "a", "n", "e">> }

\* metadata composers: words separated by one or two spaces, padded or not
ComposerInputs ==
    {pad \o Join(ws, sep) \o pad :
        pad \in {<<>>, <<" ">>}, sep \in {<<" ">>, <<" ", " ">>},
        ws \in SeqsUpTo(WordSet, MaxWords)}

\* a score with parts, or a score without parts that stands for one itself
ScoreSet ==
    {[parts |-> ps, own |-> EmptyPart, title |-> t, composer |-> c, keyName |-> k] :
        ps \in SeqsUpTo(ScorePartSet, MaxParts) \ {<<>>},
        t \in TitleSet, c \in ComposerSet, k \in KeyNameSet}
    \cup
    {[parts |-> <<>>, own |-> o, title |-> t, composer |-> c, keyName |-> k] :
        o \in ScorePartSet, t \in TitleSet, c \in ComposerSet, k \in KeyNameSet}

(***************************************************************************)
(* State                                                                   *)
(***************************************************************************)

VARIABLES
    part,                   \* the part handed to _build_progression
    pc,                     \* where _build_progression stands
    lines,                  \* lines
    last_ts,                \* last_ts (empty: None)
    idx,                    \* idx of the main loop
    ending_indices,         \* ending_indices
    backward_repeat_index,  \* backward_repeat_index
    synthetic_endings,      \* synthetic_endings
    added_forward_repeat,   \* added_forward_repeat
    added_backward_repeat,  \* added_backward_repeat
    progression,            \* the value _build_progression returned
    score,                  \* the score load_score gave
    style,                  \* the style argument
    fn,                     \* the function called: "url", "raw" or "html"
    upc,                    \* where that function stands
    selected,               \* index of part_with_chords among targets, -1: None
    header,                 \* title, composer, style_text, key_token
    result,                 \* the string returned
    error,                  \* the message of the ValueError raised
    measure,                \* the measure handed to _measure_chords
    mpc,                    \* where _measure_chords stands
    tokens,                 \* the list _measure_chords returned
    given,                  \* the part as it was when the encoder was first called
    calls,                  \* how many calls of _build_progression have returned
    previous,               \* what the calls before this one gave, oldest first
    loaded,                 \* the score load_score gave to delete.py / simplify.py
    op,                     \* the function of delete.py / simplify.py called
    epc,                    \* where that function stands
    ranges,                 \* ranges: what _parse_measure_spec gave
    selection,              \* the part names/numbers given, and what _select_parts gave
    new_score,              \* new_score of delete_sections
    ratio                   \* ratio of _ornament_removal, as [num, den]

bpVars ==
    <<part, pc, lines, last_ts, idx, ending_indices, backward_repeat_index,
      synthetic_endings, added_forward_repeat, added_backward_repeat, progression>>

urlVars == <<score, style, fn, upc, selected, header, result, error>>

mcVars == <<measure, mpc, tokens>>

runVars == <<given, calls, previous>>

editVars == <<loaded, op, epc, ranges, selection, new_score, ratio>>

vars == <<bpVars, urlVars, mcVars, runVars, editVars>>

\* fallback_repeat_needed
FallbackRepeatNeeded == ending_indices # <<>>

\* first_ending_index
FirstEndingIndex == IF ending_indices # <<>> THEN ending_indices[1] ELSE -1

\* the locals of _build_progression before its first statement
Entered(p, at) ==
    /\ part = p
    /\ pc = at
    /\ lines = <<>>
    /\ last_ts = <<>>
    /\ idx = 0
    /\ ending_indices = <<>>
    /\ backward_repeat_index = -1
    /\ synthetic_endings = [j \in {} |-> <<>>]
    /\ added_forward_repeat = FALSE
    /\ added_backward_repeat = FALSE
    /\ progression = <<>>

NoHeader == [title |-> <<>>, composer |-> <<>>, style_text |-> <<>>, key_token |-> <<>>]

EmptyScore ==
    [parts |-> <<>>, own |-> EmptyPart, title |-> <<>>, composer |-> <<>>, keyName |-> <<>>]

\* no URL function is running
NoUrlCall ==
    /\ score = EmptyScore
    /\ style = <<>>
    /\ fn = "none"
    /\ upc = "none"
    /\ selected = -1
    /\ header = NoHeader
    /\ result = <<>>
    /\ error = ""

\* _measure_chords is not called on its own
NoChordCall ==
    /\ measure = Plain
    /\ mpc = "none"
    /\ tokens = <<>>

\* what a call gave: the value returned, or the message of the error raised
Outcome(f, value, err) == [fn |-> f, value |-> value, error |-> err]

\* the first call on a tree: nothing has returned yet
FirstCall(p) ==
    /\ given = p
    /\ calls = 0
    /\ previous = <<>>

\* an edited score: parts in order, and the measures a score without parts
\* holds itself
NoScore == [parts |-> <<>>, own |-> <<>>]

\* no function of delete.py or simplify.py is called
NoEdit ==
    /\ loaded = NoScore
    /\ op = "none"
    /\ epc = "none"
    /\ ranges = <<>>
    /\ selection = [asked |-> FALSE, error |-> FALSE, found |-> <<>>]
    /\ new_score = NoScore
    /\ ratio = [num |-> 1, den |-> 8]

\* _build_progression is called on a part
Init ==
    /\ \E p \in PartSet : Entered(p, "start") /\ FirstCall(p)
    /\ NoUrlCall
    /\ NoChordCall
    /\ NoEdit

\* the same, on a long part
InitLong ==
    /\ \E p \in LongPartSet : Entered(p, "start") /\ FirstCall(p)
    /\ NoUrlCall
    /\ NoChordCall
    /\ NoEdit

\* _measure_chords is called on a measure
InitChords ==
    /\ Entered(EmptyPart, "idle")
    /\ FirstCall(EmptyPart)
    /\ NoUrlCall
    /\ measure \in ChordMeasureSet
    /\ mpc = "call"
    /\ tokens = <<>>
    /\ NoEdit

\* score_to_irealpro_url or score_to_irealpro_raw_url is called on a score
InitUrl ==
    /\ Entered(EmptyPart, "idle")
    /\ FirstCall(EmptyPart)
    /\ NoChordCall
    /\ score \in ScoreSet
    /\ style \in StyleSet
    /\ fn \in {"url", "raw"}
    /\ upc = "select"
    /\ selected = -1
    /\ header = NoHeader
    /\ result = <<>>
    /\ error = ""
    /\ NoEdit

(***************************************************************************)
(* _build_progression, step by step                                        *)
(***************************************************************************)

\* the initial time signature of the part is detected and emitted
Start ==
    /\ pc = "start"
    /\ last_ts' = DetectTimeSignature(part)
    /\ lines' = IF DetectTimeSignature(part) # <<>> THEN <<DetectTimeSignature(part)>> ELSE <<>>
    /\ pc' = "prescan"
    /\ UNCHANGED <<part, idx, ending_indices, backward_repeat_index, synthetic_endings,
                   added_forward_repeat, added_backward_repeat, progression>>
    /\ UNCHANGED <<urlVars, mcVars, runVars>>
    /\ UNCHANGED editVars

\* the pre-scan for ending texts and the first backward repeat
Prescan ==
    /\ pc = "prescan"
    /\ ending_indices' = EndingIndices(part.measures)
    /\ backward_repeat_index' = BackwardRepeatIndex(part.measures)
    /\ added_forward_repeat' = FALSE
    /\ added_backward_repeat' = FALSE
    /\ pc' = "synth"
    /\ UNCHANGED <<part, lines, last_ts, idx, synthetic_endings, progression>>
    /\ UNCHANGED <<urlVars, mcVars, runVars>>
    /\ UNCHANGED editVars

\* the synthetic endings are computed
Synthesize ==
    /\ pc = "synth"
    /\ synthetic_endings' =
           SyntheticEndings(part.measures, ending_indices, backward_repeat_index)
    /\ idx' = 0
    /\ pc' = "loop"
    /\ UNCHANGED <<part, lines, last_ts, ending_indices, backward_repeat_index,
                   added_forward_repeat, added_backward_repeat, progression>>
    /\ UNCHANGED <<urlVars, mcVars, runVars>>
    /\ UNCHANGED editVars

\* one pass of the loop over the measures
MeasureStep ==
    /\ pc = "loop"
    /\ idx < Len(part.measures)
    /\ LET meas == MeasureAt(part.measures, idx)
           pre == PrefixTokens(meas, idx, FallbackRepeatNeeded, added_forward_repeat)
           post == SuffixTokens(meas, idx, FallbackRepeatNeeded, FirstEndingIndex,
                                added_backward_repeat)
       IN /\ lines' = lines \o MeasureItems(meas, idx, last_ts, synthetic_endings,
                                             FallbackRepeatNeeded, FirstEndingIndex,
                                             added_forward_repeat, added_backward_repeat)
          /\ last_ts' = IF TsEmitted(meas, last_ts) # <<>> THEN TsEmitted(meas, last_ts)
                        ELSE last_ts
          /\ added_forward_repeat' = (added_forward_repeat \/ In(<<"{">>, pre))
          /\ added_backward_repeat' = (added_backward_repeat \/ In(<<"}">>, post))
    /\ part' = [part EXCEPT !.measures[idx + 1] = MeasureAfterChords(@)]
    /\ idx' = idx + 1
    /\ UNCHANGED <<pc, ending_indices, backward_repeat_index, synthetic_endings,
                   progression>>
    /\ UNCHANGED <<urlVars, mcVars, runVars>>
    /\ UNCHANGED editVars

\* after the loop: the final bar is written and the text is joined
Finalize ==
    /\ pc = "loop"
    /\ idx = Len(part.measures)
    /\ lines' = FinalBar(lines)
    /\ progression' = JoinLines(FinalBar(lines))
    /\ pc' = "done"
    /\ UNCHANGED <<part, last_ts, idx, ending_indices, backward_repeat_index,
                   synthetic_endings, added_forward_repeat, added_backward_repeat>>
    /\ calls' = calls + 1
    /\ UNCHANGED <<urlVars, mcVars, given, previous>>
    /\ UNCHANGED editVars

Next == Start \/ Prescan \/ Synthesize \/ MeasureStep \/ Finalize

Spec == Init /\ [][Next]_vars

SpecLong == InitLong /\ [][Next]_vars

(***************************************************************************)
(* _build_progression called twice on the same tree                        *)
(***************************************************************************)

InitTwice ==
    /\ \E p \in TwicePartSet : Entered(p, "start") /\ FirstCall(p)
    /\ NoUrlCall
    /\ NoChordCall
    /\ NoEdit

\* the first call has returned; the encoder is called again on the tree as
\* the first call left it
CallAgain ==
    /\ pc = "done"
    /\ calls = 1
    /\ previous' = Append(previous, Outcome("build", progression, ""))
    /\ pc' = "start"
    /\ lines' = <<>>
    /\ last_ts' = <<>>
    /\ idx' = 0
    /\ ending_indices' = <<>>
    /\ backward_repeat_index' = -1
    /\ synthetic_endings' = [j \in {} |-> <<>>]
    /\ added_forward_repeat' = FALSE
    /\ added_backward_repeat' = FALSE
    /\ progression' = <<>>
    /\ UNCHANGED <<part, given, calls, urlVars, mcVars>>
    /\ UNCHANGED editVars

NextTwice == Start \/ Prescan \/ Synthesize \/ MeasureStep \/ Finalize \/ CallAgain

SpecTwice == InitTwice /\ [][NextTwice]_vars

(***************************************************************************)
(* _measure_chords called on one measure                                   *)
(***************************************************************************)

ExtractChords ==
    /\ mpc = "call"
    /\ tokens' = MeasureChords(measure)
    /\ mpc' = "done"
    /\ measure' = MeasureAfterChords(measure)
    /\ UNCHANGED <<bpVars, urlVars, runVars>>
    /\ UNCHANGED editVars

NextChords == ExtractChords

SpecChords == InitChords /\ [][NextChords]_vars

(***************************************************************************)
(* score_to_irealpro_url and score_to_irealpro_raw_url                     *)
(***************************************************************************)

\* the loop over targets finds a part with a chord
SelectPart ==
    /\ upc = "select"
    /\ FirstWithChord(Targets(score)) >= 0
    /\ selected' = FirstWithChord(Targets(score))
    /\ upc' = "header"
    /\ UNCHANGED <<score, style, fn, header, result, error, bpVars, mcVars, runVars>>
    /\ UNCHANGED editVars

\* no part holds a chord: ValueError
RaiseNoChords ==
    /\ upc = "select"
    /\ FirstWithChord(Targets(score)) < 0
    /\ error' = NoChordsError
    /\ upc' = "raised"
    /\ UNCHANGED <<score, style, fn, selected, header, result, bpVars, mcVars, runVars>>
    /\ UNCHANGED editVars

\* the header fields are computed and _build_progression is entered
Header ==
    /\ upc = "header"
    /\ header' = [title |-> TitleForIreal(score.title),
                  composer |-> ComposerLastFirst(score.composer),
                  style_text |-> StyleText(style),
                  key_token |-> DetectKeyToken(score.keyName)]
    /\ part' = Targets(score)[selected + 1]
    /\ pc' = "start"
    /\ upc' = "build"
    /\ UNCHANGED <<lines, last_ts, idx, ending_indices, backward_repeat_index,
                   synthetic_endings, added_forward_repeat, added_backward_repeat,
                   progression>>
    /\ given' = Targets(score)[selected + 1]
    /\ UNCHANGED <<score, style, fn, selected, result, error, mcVars, calls, previous>>
    /\ UNCHANGED editVars

\* the progression came back empty: ValueError
RaiseEmpty ==
    /\ upc = "build"
    /\ pc = "done"
    /\ EmptyProgression(progression)
    /\ error' = NoChordsError
    /\ upc' = "raised"
    /\ UNCHANGED <<score, style, fn, selected, header, result, bpVars, mcVars, runVars>>
    /\ UNCHANGED editVars

\* the URL is composed and returned, percent-encoded by score_to_irealpro_url
ReturnUrl ==
    /\ upc = "build"
    /\ pc = "done"
    /\ ~EmptyProgression(progression)
    /\ LET raw_url == RawUrl(header.title, header.composer, header.style_text,
                             header.key_token, progression)
       IN result' = IF fn = "raw" THEN raw_url ELSE Quote(raw_url)
    /\ upc' = IF fn = "html" THEN "anchor" ELSE "returned"
    /\ UNCHANGED <<score, style, fn, selected, header, error, bpVars, mcVars, runVars>>
    /\ UNCHANGED editVars

NextUrl ==
    \/ SelectPart \/ RaiseNoChords \/ Header
    \/ Start \/ Prescan \/ Synthesize \/ MeasureStep \/ Finalize
    \/ RaiseEmpty \/ ReturnUrl

SpecUrl == InitUrl /\ [][NextUrl]_vars

(***************************************************************************)
(* The header fields taken from the metadata                               *)
(***************************************************************************)

InitHeader ==
    /\ Entered(EmptyPart, "idle")
    /\ FirstCall(EmptyPart)
    /\ NoChordCall
    /\ \E t \in TitleInputs, c \in ComposerInputs :
           score = [EmptyScore EXCEPT !.title = t, !.composer = c]
    /\ style = <<>>
    /\ fn = "none"
    /\ upc = "header"
    /\ selected = -1
    /\ header = NoHeader
    /\ result = <<>>
    /\ error = ""
    /\ NoEdit

\* title = _title_for_ireal(...)
RenderTitle ==
    /\ upc = "header"
    /\ header.title = <<>>
    /\ header' = [header EXCEPT !.title = TitleForIreal(score.title)]
    /\ UNCHANGED <<score, style, fn, upc, selected, result, error, bpVars, mcVars, runVars>>
    /\ UNCHANGED editVars

\* composer = _composer_last_first(...)
RenderComposer ==
    /\ upc = "header"
    /\ header.composer = <<>>
    /\ header' = [header EXCEPT !.composer = ComposerLastFirst(score.composer)]
    /\ UNCHANGED <<score, style, fn, upc, selected, result, error, bpVars, mcVars, runVars>>
    /\ UNCHANGED editVars

NextHeader == RenderTitle \/ RenderComposer

SpecHeader == InitHeader /\ [][NextHeader]_vars

(***************************************************************************)
(* The three functions called one after the other on the same score and    *)
(* style: score_to_irealpro_url, score_to_irealpro_raw_url,                *)
(* score_to_irealpro_html_link                                            *)
(***************************************************************************)

InitCalls ==
    /\ Entered(EmptyPart, "idle")
    /\ FirstCall(EmptyPart)
    /\ NoChordCall
    /\ score \in ScoreSet
    /\ style \in StyleSet
    /\ fn = "url"
    /\ upc = "select"
    /\ selected = -1
    /\ header = NoHeader
    /\ result = <<>>
    /\ error = ""
    /\ NoEdit

\* score_to_irealpro_html_link wraps the URL it got into the anchor
Anchor ==
    /\ upc = "anchor"
    /\ result' = HtmlLink(result)
    /\ upc' = "returned"
    /\ UNCHANGED <<score, style, fn, selected, header, error, bpVars, mcVars, runVars>>
    /\ UNCHANGED editVars

\* the call is over; the next function is called on the same score and style
CallNext ==
    /\ upc \in {"returned", "raised"}
    /\ fn \in {"url", "raw"}
    /\ previous' = Append(previous, Outcome(fn, result, error))
    /\ fn' = IF fn = "url" THEN "raw" ELSE "html"
    /\ upc' = "select"
    /\ selected' = -1
    /\ header' = NoHeader
    /\ result' = <<>>
    /\ error' = ""
    /\ part' = EmptyPart
    /\ pc' = "idle"
    /\ lines' = <<>>
    /\ last_ts' = <<>>
    /\ idx' = 0
    /\ ending_indices' = <<>>
    /\ backward_repeat_index' = -1
    /\ synthetic_endings' = [j \in {} |-> <<>>]
    /\ added_forward_repeat' = FALSE
    /\ added_backward_repeat' = FALSE
    /\ progression' = <<>>
    /\ UNCHANGED <<score, style, given, calls, mcVars>>
    /\ UNCHANGED editVars

NextCalls ==
    \/ SelectPart \/ RaiseNoChords \/ Header
    \/ Start \/ Prescan \/ Synthesize \/ MeasureStep \/ Finalize
    \/ RaiseEmpty \/ ReturnUrl \/ Anchor \/ CallNext

SpecCalls == InitCalls /\ [][NextCalls]_vars

(***************************************************************************)
(* delete.py: the score tree, as far as the deleting functions read it     *)
(*                                                                         *)
(*   Note    : [cls, pitch, lyrics, articulations]  (cls: Note or Chord)   *)
(*   Measure : [number, ts, key, clef, notes, texts, harmony]              *)
(*   Part    : [name, measures]                                            *)
(*   Score   : [parts, own]                                                *)
(* ts, key and clef are the TimeSignature, KeySignature and Clef elements  *)
(* of the measure in order; texts holds the class names of its text        *)
(* elements and harmony those of its chord symbols; own are the measures   *)
(* a score holds outside any part.  A measure without a number has         *)
(* number 0.                                                               *)
(***************************************************************************)

\* int(getattr(meas, "number", 0) or 0)
MeasureNum(meas) == meas.number

\* the numbers one (start, end) pair puts into delete_set, end excluded
RangeNumbers_HalfOpen(r) == IF r[1] > r[2] THEN r[2] .. (r[1] - 1) ELSE r[1] .. (r[2] - 1)

\* the numbers one (start, end) pair puts into delete_set
RangeNumbers(r) == IF r[1] > r[2] THEN r[2] .. r[1] ELSE r[1] .. r[2]

\* delete_set of _delete_measures_from_stream
DeleteSet(rs) == UNION {RangeNumbers(rs[i]) : i \in DOMAIN rs}

\* stream.Measure(number=1)
EmptyMeasure == [number |-> 1, ts |-> <<>>, key |-> <<>>, clef |-> <<>>, notes |-> <<>>, texts |-> <<>>, harmony |-> <<>>]

\* the loop of _insert_starting_attributes: the last element of one class
\* in the measures before the first kept one
RECURSIVE LatestAttr(_, _, _, _)
LatestAttr(measures, first_kept_num, attr, last) ==
    IF measures = <<>> THEN last
    ELSE IF MeasureNum(Head(measures)) >= first_kept_num THEN last
    ELSE LET found == Head(measures)[attr]
         IN  LatestAttr(Tail(measures), first_kept_num, attr,
                        IF found # <<>> THEN <<found[Len(found)]>> ELSE last)

\* _insert_starting_attributes
InsertStartingAttributes(first_measure, original, first_kept_num) ==
    IF first_kept_num <= 1 THEN first_measure
    ELSE [first_measure EXCEPT
            !.ts = @ \o LatestAttr(original.measures, first_kept_num, "ts", <<>>),
            !.key = @ \o LatestAttr(original.measures, first_kept_num, "key", <<>>),
            !.clef = @ \o LatestAttr(original.measures, first_kept_num, "clef", <<>>)]

\* kept_measures of _delete_measures_from_stream
KeptMeasures(stream, rs) == SelectSeq(stream.measures, LAMBDA meas : MeasureNum(meas) \notin DeleteSet(rs))

\* _delete_measures_from_stream
DeleteMeasuresFromStream(stream, rs) ==
    LET kept_measures == KeptMeasures(stream, rs)
    IN  IF kept_measures = <<>> THEN [stream EXCEPT !.measures = <<EmptyMeasure>>]
        ELSE [stream EXCEPT !.measures =
                <<InsertStartingAttributes(kept_measures[1], stream, MeasureNum(kept_measures[1]))>>
                \o Tail(kept_measures)]

\* bool(stream): a stream is true when it holds an element
Truthy(stream) == stream.measures # <<>>

\* list(score.parts) or [score], by position
AllParts(sc) == IF sc.parts # <<>> THEN sc.parts ELSE <<[name |-> "", measures |-> sc.own]>>

\* to_delete of delete_sections: the positions of the parts to drop
ToDelete(sel) == IF sel.asked /\ ~sel.error THEN {sel.found[i] : i \in DOMAIN sel.found} ELSE {}

\* parts_to_keep of delete_sections, by position
PartsToKeep(sc, sel) == SelectSeq([i \in 1 .. Len(AllParts(sc)) |-> i], LAMBDA i : i \notin ToDelete(sel))

\* what delete_sections makes of one kept part
KeptPart(stream, rs) == IF rs # <<>> THEN DeleteMeasuresFromStream(stream, rs) ELSE stream

\* new_score after the parts to keep were copied into it
ScoreOfKept(sc, sel, rs) ==
    IF sc.parts = <<>>
    THEN LET kept_stream == KeptPart(AllParts(sc)[1], rs)
         IN  [parts |-> <<>>, own |-> IF Truthy(kept_stream) THEN kept_stream.measures ELSE <<>>]
    ELSE LET keep == PartsToKeep(sc, sel)
             made == [j \in 1 .. Len(keep) |-> KeptPart(sc.parts[keep[j]], rs)]
         IN  [parts |-> SelectSeq(made, Truthy), own |-> <<>>]

\* the part delete_sections adds to a score left without parts
FallbackPart == [name |-> "P1", measures |-> <<EmptyMeasure>>]

\* _renumber_measures_starting_at_one on one sequence of measures
RenumberMeasures(measures) == [i \in 1 .. Len(measures) |-> [measures[i] EXCEPT !.number = i]]

\* _renumber_measures_starting_at_one
RenumberMeasuresStartingAtOne(sc) ==
    [parts |-> [j \in 1 .. Len(sc.parts) |-> [sc.parts[j] EXCEPT !.measures = RenumberMeasures(@)]],
     own |-> RenumberMeasures(sc.own)]

(***************************************************************************)
(* The scores delete_sections is run on                                    *)
(***************************************************************************)

MaxDelMeasures == 4

PlainNote(p) == [cls |-> "Note", pitch |-> p, lyrics |-> <<>>, articulations |-> <<>>]

\* measure i of a loaded part: it holds one note of its own; the first
\* measure carries the signatures and the clef, and the third may change
\* the time signature
LoadedMeasure(i, change) ==
    [number |-> i,
     ts |-> IF i = 1 THEN <<"4/4">> ELSE IF i = 3 /\ change THEN <<"3/4">> ELSE <<>>,
     key |-> IF i = 1 THEN <<"F">> ELSE <<>>,
     clef |-> IF i = 1 THEN <<"treble">> ELSE <<>>,
     notes |-> <<PlainNote(60 + i)>>,
     texts |-> <<>>,
     harmony |-> <<>>]

LoadedPart(name, n, change) == [name |-> name, measures |-> [i \in 1 .. n |-> LoadedMeasure(i, change)]]

DelScoreSet ==
    {[parts |-> <<LoadedPart("Flute", n, c)>>, own |-> <<>>] : n \in 0 .. MaxDelMeasures, c \in BOOLEAN}
    \cup {[parts |-> <<LoadedPart("Flute", n, FALSE), LoadedPart("Bass", k, c)>>, own |-> <<>>] :
            n \in {2, MaxDelMeasures}, k \in 0 .. MaxDelMeasures, c \in BOOLEAN}
    \cup {[parts |-> <<>>, own |-> LoadedPart("", n, FALSE).measures] : n \in {0, 2, MaxDelMeasures}}

\* the (start, end) pairs of a measure specification such as "1,3,5-8"
RangePairs == {<<1, 1>>, <<3, 3>>, <<2, 3>>, <<1, MaxDelMeasures>>, <<MaxDelMeasures, MaxDelMeasures + 1>>, <<MaxDelMeasures + 2, MaxDelMeasures + 3>>}

\* what _parse_measure_spec gives: no range for no specification
RangeLists == {<<>>} \cup {<<r>> : r \in RangePairs} \cup {<<r, q>> : r \in RangePairs, q \in RangePairs}

\* what _select_parts gives for the names and numbers given: parts of the
\* score by position, no part at all, or a ValueError
SelectionSet(sc) ==
    {[asked |-> FALSE, error |-> FALSE, found |-> <<>>], [asked |-> TRUE, error |-> TRUE, found |-> <<>>]}
    \cup {[asked |-> TRUE, error |-> FALSE, found |-> f] :
            f \in {g \in {<<>>, <<1>>, <<2>>, <<1, 2>>} : \A i \in DOMAIN g : g[i] <= Len(AllParts(sc))}}

(***************************************************************************)
(* delete_sections                                                         *)
(***************************************************************************)

\* no function of the encoder is called
NoEncoding ==
    /\ Entered(EmptyPart, "idle")
    /\ FirstCall(EmptyPart)
    /\ NoChordCall
    /\ NoUrlCall

\* delete_sections is called on a loaded score
InitDelete ==
    /\ NoEncoding
    /\ loaded \in DelScoreSet
    /\ ranges \in RangeLists
    /\ selection \in SelectionSet(loaded)
    /\ op = "sections"
    /\ epc = "called"
    /\ new_score = NoScore
    /\ ratio = [num |-> 1, den |-> 8]

\* the parts to keep are copied, without the measures to delete
KeepParts ==
    /\ op = "sections"
    /\ epc = "called"
    /\ new_score' = ScoreOfKept(loaded, selection, ranges)
    /\ epc' = "kept"
    /\ UNCHANGED <<loaded, op, ranges, selection, ratio>>
    /\ UNCHANGED <<bpVars, urlVars, mcVars, runVars>>

\* a score left without parts gets one part holding one empty measure
AddFallback ==
    /\ op = "sections"
    /\ epc = "kept"
    /\ new_score' = IF new_score.parts = <<>> THEN [new_score EXCEPT !.parts = <<FallbackPart>>] ELSE new_score
    /\ epc' = "filled"
    /\ UNCHANGED <<loaded, op, ranges, selection, ratio>>
    /\ UNCHANGED <<bpVars, urlVars, mcVars, runVars>>

\* the measures are numbered again; the score is then handed to write_score
Renumber ==
    /\ op = "sections"
    /\ epc = "filled"
    /\ new_score' = RenumberMeasuresStartingAtOne(new_score)
    /\ epc' = "written"
    /\ UNCHANGED <<loaded, op, ranges, selection, ratio>>
    /\ UNCHANGED <<bpVars, urlVars, mcVars, runVars>>

NextDelete == KeepParts \/ AddFallback \/ Renumber

SpecDelete == InitDelete /\ [][NextDelete]_vars

(***************************************************************************)
(* delete_lyrics, delete_annotations, delete_fingering, delete_chords      *)
(***************************************************************************)

\* _number_in_ranges that takes every measure to be in scope
NumberInRanges_Everywhere(num, rs) == TRUE

\* _number_in_ranges
NumberInRanges(num, rs) ==
    IF rs = <<>> THEN TRUE
    ELSE \E i \in DOMAIN rs : rs[i][1] <= num /\ num <= rs[i][2]

\* _selected_parts without the fallback to every part
SelectedParts_AsFound(sc, sel) ==
    IF sel.asked THEN {sel.found[i] : i \in DOMAIN sel.found}
    ELSE 1 .. Len(AllParts(sc))

\* _selected_parts, by position: the parts found, else every part
SelectedParts(sc, sel) ==
    IF sel.asked /\ ~sel.error /\ sel.found # <<>>
    THEN {sel.found[i] : i \in DOMAIN sel.found}
    ELSE 1 .. Len(AllParts(sc))

\* classes of delete_annotations
AnnotationClasses == {"TextExpression", "RehearsalMark", "Expression"}

\* classes of delete_chords
HarmonyClasses == {"ChordSymbol", "Harmony"}

\* delete_lyrics on one element of part.recurse().notes
WithoutLyrics(n) == IF n.cls = "Note" THEN [n EXCEPT !.lyrics = <<>>] ELSE n

\* delete_fingering on one element of part.recurse().notes
WithoutFingering(n) ==
    IF n.cls = "Note" THEN [n EXCEPT !.articulations = SelectSeq(@, LAMBDA a : a # "Fingering")] ELSE n

\* what one of the four functions leaves of a measure
Stripped(meas, what, rs) ==
    IF ~NumberInRanges(MeasureNum(meas), rs) THEN meas
    ELSE CASE what = "lyrics" -> [meas EXCEPT !.notes = [k \in DOMAIN @ |-> WithoutLyrics(@[k])]]
           [] what = "fingering" -> [meas EXCEPT !.notes = [k \in DOMAIN @ |-> WithoutFingering(@[k])]]
           [] what = "annotations" -> [meas EXCEPT !.texts = SelectSeq(@, LAMBDA c : c \notin AnnotationClasses)]
           [] what = "chords" -> [meas EXCEPT !.harmony = SelectSeq(@, LAMBDA c : c \notin HarmonyClasses)]

StrippedMeasures(measures, what, rs) == [i \in DOMAIN measures |-> Stripped(measures[i], what, rs)]

\* the score after the loop over the selected parts
StrippedScore(sc, sel, rs, what) ==
    IF sc.parts = <<>> THEN [sc EXCEPT !.own = StrippedMeasures(@, what, rs)]
    ELSE [sc EXCEPT !.parts = [j \in DOMAIN @ |->
            IF j \in SelectedParts(sc, sel) THEN [@[j] EXCEPT !.measures = StrippedMeasures(@, what, rs)]
            ELSE @[j]]]

MaxStripMeasures == 3

\* a measure holding a note and a chord with a lyric, a fingering and a
\* staccato each, two text annotations, a dynamic and a chord symbol
MarkedMeasure(i) ==
    [number |-> i, ts |-> <<>>, key |-> <<>>, clef |-> <<>>,
     notes |-> <<[cls |-> "Note", pitch |-> 60 + i, lyrics |-> <<"la">>, articulations |-> <<"Fingering", "Staccato">>],
                 [cls |-> "Chord", pitch |-> 48 + i, lyrics |-> <<"la">>, articulations |-> <<"Fingering">>]>>,
     texts |-> <<"TextExpression", "Dynamic", "RehearsalMark">>,
     harmony |-> <<"ChordSymbol">>]

StripPart(name, marked) ==
    [name |-> name,
     measures |-> [i \in DOMAIN marked |-> IF marked[i] THEN MarkedMeasure(i) ELSE LoadedMeasure(i, FALSE)]]

MarkSet == UNION {[1 .. n -> BOOLEAN] : n \in 1 .. MaxStripMeasures}

StripScoreSet ==
    {[parts |-> <<StripPart("Flute", f)>>, own |-> <<>>] : f \in MarkSet}
    \cup {[parts |-> <<StripPart("Flute", <<TRUE, TRUE>>), StripPart("Bass", f)>>, own |-> <<>>] : f \in MarkSet}
    \cup {[parts |-> <<>>, own |-> StripPart("", <<TRUE, TRUE>>).measures]}

StripRanges == {<<>>, <<<<1, 1>>>>, <<<<2, MaxStripMeasures>>>>, <<<<1, 1>>, <<MaxStripMeasures, MaxStripMeasures>>>>, <<<<MaxStripMeasures + 1, MaxStripMeasures + 2>>>>}

\* one of the four functions is called on a loaded score
InitStrip ==
    /\ NoEncoding
    /\ loaded \in StripScoreSet
    /\ ranges \in StripRanges
    /\ selection \in SelectionSet(loaded)
    /\ op \in {"lyrics", "annotations", "fingering", "chords"}
    /\ epc = "called"
    /\ new_score = NoScore
    /\ ratio = [num |-> 1, den |-> 8]

\* the function called runs to its end: new_score is the score it hands to
\* write_score
RunStrip(what) ==
    /\ op = what
    /\ epc = "called"
    /\ new_score' = StrippedScore(loaded, selection, ranges, what)
    /\ epc' = "written"
    /\ UNCHANGED <<loaded, op, ranges, selection, ratio>>
    /\ UNCHANGED <<bpVars, urlVars, mcVars, runVars>>

DeleteLyrics == RunStrip("lyrics")

DeleteAnnotations == RunStrip("annotations")

DeleteFingering == RunStrip("fingering")

DeleteChords == RunStrip("chords")

NextStrip == DeleteLyrics \/ DeleteAnnotations \/ DeleteFingering \/ DeleteChords

SpecStrip == InitStrip /\ [][NextStrip]_vars

(***************************************************************************)
(* simplify.py: ornament removal                                           *)
(*                                                                         *)
(* Lengths are whole numbers of 1/16 of a quarter note (a quarter is 16),  *)
(* beat strengths whole numbers of eighths (0.5 is 4), and the ratio is a  *)
(* fraction [num, den] with den > 0, so that ql < beat_ql * ratio is       *)
(* ql * den < beat_ql * num.  A note of the tree read here has the fields  *)
(*   [cls, pitch, lyrics, articulations, ql, grace, strength]              *)
(* with pitch in semitones.                                                *)
(***************************************************************************)

\* default of _parse_ratio
DefaultRatio == [num |-> 1, den |-> 8]

\* _parse_ratio: the duration given is absent or a fraction text
ParseRatio(value) ==
    IF value = <<>> THEN DefaultRatio
    ELSE IF value[1].den = 0 THEN DefaultRatio
    ELSE value[1]

\* beatDuration.quarterLength of a time signature
BeatDuration(ts) == IF ts = "6/8" THEN 24 ELSE 16

\* _local_beat_quarter_length of a note of measure i: the beat of the
\* time signature in its context, 1.0 without one
RECURSIVE LocalBeatQuarterLength(_, _)
LocalBeatQuarterLength(measures, i) ==
    IF i = 0 THEN 16
    ELSE IF measures[i].ts # <<>> THEN BeatDuration(measures[i].ts[Len(measures[i].ts)])
    ELSE LocalBeatQuarterLength(measures, i - 1)

\* _is_stepwise
IsStepwise(n1, n2) ==
    LET semis == IF n1.pitch >= n2.pitch THEN n1.pitch - n2.pitch ELSE n2.pitch - n1.pitch
    IN  semis \in {1, 2}

\* _is_weak_beat
IsWeakBeat(n) == n.strength < 4

\* ql < threshold, with the bound itself counted as short
BelowThreshold_OrEqual(ql, beat_ql, r) == ql * r.den <= beat_ql * r.num

\* ql < threshold, for threshold = beat_ql * ratio
BelowThreshold(ql, beat_ql, r) == ql * r.den < beat_ql * r.num

\* ql >= threshold
AtLeastThreshold(ql, beat_ql, r) == ql * r.den >= beat_ql * r.num

\* the places <<measure, element>> of the Note objects of a part, in the
\* order of part.recurse().notes
RECURSIVE NotePlaces(_, _)
NotePlaces(measures, i) ==
    IF i > Len(measures) THEN <<>>
    ELSE SelectSeq([k \in 1 .. Len(measures[i].notes) |-> <<i, k>>],
                   LAMBDA pl : measures[pl[1]].notes[pl[2]].cls = "Note")
         \o NotePlaces(measures, i + 1)

\* the test of the loop of _ornament_removal on notes[i], i counted from 1
IsOrnament(measures, places, i, r) ==
    LET n_prev == measures[places[i - 1][1]].notes[places[i - 1][2]]
        n == measures[places[i][1]].notes[places[i][2]]
        n_next == measures[places[i + 1][1]].notes[places[i + 1][2]]
        beat_ql == LocalBeatQuarterLength(measures, places[i][1])
        cond_duration == n.grace \/ BelowThreshold(n.ql, beat_ql, r)
        cond_neighbors == AtLeastThreshold(n_prev.ql, beat_ql, r) /\ AtLeastThreshold(n_next.ql, beat_ql, r)
        cond_stepwise == IsStepwise(n_prev, n) /\ IsStepwise(n, n_next)
        cond_weak == IsWeakBeat(n)
    IN  cond_duration /\ cond_neighbors /\ cond_stepwise /\ cond_weak

\* to_remove of _ornament_removal, as places
ToRemove(measures, r) ==
    LET places == NotePlaces(measures, 1)
    IN  {places[i] : i \in {k \in 2 .. (Len(places) - 1) : IsOrnament(measures, places, k, r)}}

\* the measures of a part after the notes of to_remove left their sites
WithoutOrnaments(measures, r) ==
    [i \in 1 .. Len(measures) |->
        [measures[i] EXCEPT !.notes =
            LET kept == SelectSeq([k \in 1 .. Len(@) |-> k], LAMBDA k : <<i, k>> \notin ToRemove(measures, r))
            IN  [k \in 1 .. Len(kept) |-> @[kept[k]]]]]

\* _ornament_removal
OrnamentRemoval(sc, r) ==
    IF sc.parts = <<>> THEN [sc EXCEPT !.own = WithoutOrnaments(@, r)]
    ELSE [sc EXCEPT !.parts = [j \in DOMAIN @ |-> [@[j] EXCEPT !.measures = WithoutOrnaments(@, r)]]]

MaxNotes == 3

\* a sounding element: a note, or a chord when cls is Chord
Sounding(cls, p, ql, grace, strength) ==
    [cls |-> cls, pitch |-> p, lyrics |-> <<>>, articulations |-> <<>>, ql |-> ql, grace |-> grace, strength |-> strength]

\* quarter notes, 1/8-quarter notes and grace notes on weak beats, a short
\* note on a strong beat, and a chord
SoundingSet ==
    {Sounding("Note", p, ql, FALSE, 2) : p \in {60, 62, 65}, ql \in {2, 16}}
    \cup {Sounding("Note", p, 0, TRUE, 2) : p \in {60, 62, 65}}
    \cup {Sounding("Note", 62, 2, FALSE, 4), Sounding("Chord", 62, 2, FALSE, 2)}

NoteLists == UNION {[1 .. n -> SoundingSet] : n \in 0 .. MaxNotes}

\* a part of two measures: the first holds the first two elements, the
\* second the others
NotesPart(first_ts, second_ts, ns) ==
    [name |-> "Flute",
     measures |-> <<[EmptyMeasure EXCEPT !.ts = first_ts, !.notes = SubSeq(ns, 1, IF Len(ns) < 2 THEN Len(ns) ELSE 2)],
                    [EmptyMeasure EXCEPT !.number = 2, !.ts = second_ts, !.notes = SubSeq(ns, 3, Len(ns))]>>]

SimplifyScoreSet ==
    {[parts |-> <<NotesPart(f, s, ns)>>, own |-> <<>>] :
        f \in {<<>>, <<"4/4">>}, s \in {<<>>, <<"6/8">>}, ns \in NoteLists}

\* the duration parameter: absent, or the text of a fraction
DurationSet == {<<>>, <<[num |-> 1, den |-> 16]>>, <<[num |-> 1, den |-> 4]>>, <<[num |-> 1, den |-> 0]>>}

\* _ornament_removal is called on a loaded score; the ratio is parsed
InitSimplify ==
    /\ NoEncoding
    /\ loaded \in SimplifyScoreSet
    /\ ranges = <<>>
    /\ selection = [asked |-> FALSE, error |-> FALSE, found |-> <<>>]
    /\ op = "ornament_removal"
    /\ epc = "called"
    /\ new_score = NoScore
    /\ \E d \in DurationSet : ratio = ParseRatio(d)

\* the ornaments of every part are found and removed: new_score is the
\* score handed to write_score
RemoveOrnaments ==
    /\ op = "ornament_removal"
    /\ epc = "called"
    /\ new_score' = OrnamentRemoval(loaded, ratio)
    /\ epc' = "written"
    /\ UNCHANGED <<loaded, op, ranges, selection, ratio>>
    /\ UNCHANGED <<bpVars, urlVars, mcVars, runVars>>

NextSimplify == RemoveOrnaments

SpecSimplify == InitSimplify /\ [][NextSimplify]_vars

(***************************************************************************)
(* _build_progression on parts whose measures carry many kinds of tokens   *)
(***************************************************************************)

\* a measure carrying a time signature, a rehearsal mark, an ending text,
\* a cue, repeat barlines and two chords
FullMeasure ==
    [Plain EXCEPT !.ts = <<TS(3, 4)>>,
                  !.texts = <<Rehearsal(<<"a">>), Text(<<"1", ".">>),
                              Text(<<"D", ".", "C", ".", " ", "a", "l", " ", "F", "i", "n", "e">>)>>,
                  !.symbols = <<SymC, SymG7>>,
                  !.leftBarline = <<RepStartL>>,
                  !.rightBarline = <<RepEndR>>]

OrderMeasureSet ==
    { FullMeasure,
      [Plain EXCEPT !.ts = <<TS(4, 4)>>, !.symbols = <<SymF>>],
      [Plain EXCEPT !.ts = <<TS(3, 4)>>, !.texts = <<Text(<<"F", "i", "n", "e">>)>>],
      [Plain EXCEPT !.symbols = <<SymC>>, !.texts = <<Text(<<"2", ".">>)>>, !.rightBarline = <<DoubleR>>],
      [Plain EXCEPT !.ts = <<TS(4, 4)>>, !.texts = <<Rehearsal(<<"b">>)>>, !.symbols = <<SymG7>>,
                    !.leftBarline = <<DoubleL>>],
      Plain }

OrderPartSet ==
    {[ts |-> t, measures |-> ms, loose |-> FALSE] :
        t \in {<<>>, <<TS(4, 4)>>, <<TS(3, 4)>>}, ms \in SeqsUpTo(OrderMeasureSet, MaxMeasures)}

InitOrder ==
    /\ \E p \in OrderPartSet : Entered(p, "start") /\ FirstCall(p)
    /\ NoUrlCall
    /\ NoChordCall
    /\ NoEdit

SpecOrder == InitOrder /\ [][Next]_vars

(***************************************************************************)
(* _barline_tokens called on one measure                                   *)
(***************************************************************************)

\* style texts: absent, plain, in enum form, and one the encoder ignores
StyleTexts ==
    { <<>>, S_light_light, S_heavy_light, S_light_heavy,
      <<"B", "a", "r", "l", "i", "n", "e", "S", "t", "y", "l", "e", ".", "L", "I", "G", "H", "T", "_", "L", "I", "G", "H", "T">>,
      <<"l", "i", "g", "h", "t", "_", "h", "e", "a", "v", "y">>,
      <<"d", "a", "s", "h", "e", "d">> }

\* direction texts: absent, the four known ones, an upper-case one and
\* one the encoder ignores
DirectionTexts ==
    { <<>>, D_forward, D_start, D_backward, D_end, <<"S", "T", "A", "R", "T">>, <<"u", "p">> }

\* the markers a measure may hold at an edge
MarkerSet ==
    {[cls |-> IF d = <<>> THEN "Barline" ELSE "Repeat", location |-> l, style |-> s,
      direction |-> d, type |-> <<>>] :
        l \in {<<>>, L_left, L_right}, s \in StyleTexts, d \in DirectionTexts}

\* measures with a marker in the left field, in the right field, or only
\* among the listed barline elements
BarMeasureSet ==
    {[Plain EXCEPT !.leftBarline = <<b>>] : b \in MarkerSet}
    \cup {[Plain EXCEPT !.rightBarline = <<b>>] : b \in MarkerSet}
    \cup {[Plain EXCEPT !.leftBarline = <<RepStartL>>, !.rightBarline = <<b>>] : b \in MarkerSet}
    \cup {[Plain EXCEPT !.otherBars = <<b>>] : b \in {RepStartL, RepEndR, DoubleL, DoubleR}}
    \cup {Plain}

InitBars ==
    /\ Entered(EmptyPart, "idle")
    /\ FirstCall(EmptyPart)
    /\ NoUrlCall
    /\ measure \in BarMeasureSet
    /\ mpc = "bars"
    /\ tokens = <<>>
    /\ NoEdit

\* _barline_tokens returns the pair (prefix, suffix)
ReadBarlines ==
    /\ mpc = "bars"
    /\ tokens' = <<BarlineTokens(measure).prefix, BarlineTokens(measure).suffix>>
    /\ mpc' = "read"
    /\ UNCHANGED measure
    /\ UNCHANGED <<bpVars, urlVars, runVars>>
    /\ UNCHANGED editVars

NextBars == ReadBarlines

SpecBars == InitBars /\ [][NextBars]_vars

(***************************************************************************)
(* _staff_text_tokens called on one measure                                *)
(***************************************************************************)

\* the most texts a measure of this specification holds
MaxTexts == 2

\* staff texts: cues in several spellings and cases, a word that merely
\* contains a phrase, a text without any phrase, an empty text
CueTexts ==
    { <<"D", ".", "C", ".", " ", "a", "l", " ", "F", "i", "n", "e">>,
      <<"d", "c", " ", "A", "L", " ", "c", "o", "d", "a">>,
      <<"D", ".", "S", ".", " ", "a", "l", " ", "C", "o", "d", "a">>,
      <<"p", "l", "a", "y", " ", "D", "S", " ", "a", "l", " ", "F", "I", "N", "E">>,
      <<"F", "i", "n", "e">>,
      <<"T", "o", " ", "C", "o", "d", "a">>,
      <<"r", "e", "f", "i", "n", "e", "d">>,
      <<"D", ".", "C", ".">>,
      <<>> }

CueMeasureSet ==
    {[Plain EXCEPT !.texts = ts] :
        ts \in SeqsUpTo({Text(c) : c \in CueTexts}, MaxTexts)}

InitCues ==
    /\ Entered(EmptyPart, "idle")
    /\ FirstCall(EmptyPart)
    /\ NoUrlCall
    /\ measure \in CueMeasureSet
    /\ mpc = "cues"
    /\ tokens = <<>>
    /\ NoEdit

\* _staff_text_tokens returns the cue tokens of the measure
ReadStaffTexts ==
    /\ mpc = "cues"
    /\ tokens' = StaffTextTokens(measure)
    /\ mpc' = "cued"
    /\ UNCHANGED measure
    /\ UNCHANGED <<bpVars, urlVars, runVars>>
    /\ UNCHANGED editVars

NextCues == ReadStaffTexts

SpecCues == InitCues /\ [][NextCues]_vars

(***************************************************************************)
(* The five deleting functions side by side                                *)
(***************************************************************************)

InitParts == InitDelete \/ InitStrip

NextParts == NextDelete \/ NextStrip

SpecParts == InitParts /\ [][NextParts]_vars

(***************************************************************************)
(* Properties                                                              *)
(***************************************************************************)

\* the tokens of the returned progression, as a reader splitting on spaces
\* sees them
ProgTokens == Words(progression)

\* the number of bar tokens among t
BarCount(t) == Count(t, <<"|">>) + Count(t, <<"Z">>)

\* C1, as stated: for every part, the progression returned holds as many bar
\* tokens ('|' or 'Z') as the part has measures.
C1_MeasureCountEveryPart ==
    pc = "done" => BarCount(ProgTokens) = Len(part.measures)

\* C1, amended: for every part with at least one measure the progression
\* holds as many bar tokens as the part has measures; for a part without
\* measures it holds the single bar token 'Z' when a time signature was
\* detected, and is empty otherwise.
C1_MeasureCount ==
    pc = "done" =>
        IF Len(part.measures) >= 1
        THEN BarCount(ProgTokens) = Len(part.measures)
        ELSE /\ part.ts # <<>> => BarCount(ProgTokens) = 1
             /\ part.ts = <<>> => progression = <<>>

\* a three-measure part whose last measure closes a repeat has been encoded:
\* the last item of lines is the '}' that follows the final bar
C1_Witness ==
    /\ pc = "done"
    /\ Len(part.measures) = 3
    /\ part.measures[3].rightBarline # <<>>
    /\ lines[Len(lines)] = <<"}">>

\* C2: in the progression of a part with at least one measure exactly one
\* token is 'Z', and no '|' comes after it (so every earlier bar token is
\* '|' and 'Z' is the last bar token), also when '}' or ']' follow it.
C2_FinalBar ==
    pc = "done" /\ Len(part.measures) >= 1 =>
        LET t == ProgTokens
        IN /\ Count(t, <<"Z">>) = 1
           /\ \A i \in 1..Len(t) : t[i] = <<"Z">> =>
                  \A j \in (i + 1)..Len(t) : t[j] # <<"|">>

\* a part of several measures is done whose 'Z' is followed by a suffix token
C2_Witness ==
    /\ pc = "done"
    /\ Len(part.measures) >= 2
    /\ \E i \in 1..(Len(ProgTokens) - 1) :
           ProgTokens[i] = <<"Z">> /\ ProgTokens[i + 1] \in {<<"}">>, <<"]">>}

\* a marker that is no repeat barline: not a Repeat, and not drawn as one
NoRepeatMarker(b) ==
    /\ b.cls # "Repeat"
    /\ Lower(b.style) \notin {S_heavy_light, S_light_heavy}

\* no measure of the part has a repeat barline
NoRepeatBarlines ==
    \A k \in 1..Len(part.measures) :
        \A n \in 1..Len(ListedBarlines(part.measures[k])) :
            NoRepeatMarker(ListedBarlines(part.measures[k])[n])

\* a chord token starts with a note letter and holds no bracket character
\* (the pieces of a staff-text cue such as 'Fine>' are no chord tokens)
IsChordToken(t) ==
    /\ t # <<>>
    /\ t[1] \in {"A", "B", "C", "D", "E", "F", "G"}
    /\ \A i \in 1..Len(t) : t[i] \notin {"<", ">", "|", "{", "}", "[", "]"}

\* the position of token x in t
PosOf(t, x) == CHOOSE i \in 1..Len(t) : t[i] = x

RECURSIVE Sum(_)
\* the sum of a sequence of numbers
Sum(ns) == IF ns = <<>> THEN 0 ELSE Head(ns) + Sum(Tail(ns))

\* a Repeat with direction forward/start located left
IsForwardLeftRepeat(b) ==
    /\ Lower(PyStr(b.direction)) \in {D_start, D_forward}
    /\ Lower(PyStr(b.location)) = L_left

\* a Repeat with direction backward/end located right
IsBackwardRightRepeat(b) ==
    /\ Lower(PyStr(b.direction)) \in {D_end, D_backward}
    /\ Lower(PyStr(b.location)) = L_right

\* the number of forward-left Repeat markers of the part's measures
ForwardRepeatMarkers ==
    Sum([k \in 1..Len(part.measures) |->
            Len(SelectSeq(ListedRepeats(part.measures[k]), IsForwardLeftRepeat))])

\* the number of backward-right Repeat markers of the part's measures
BackwardRepeatMarkers ==
    Sum([k \in 1..Len(part.measures) |->
            Len(SelectSeq(ListedRepeats(part.measures[k]), IsBackwardRightRepeat))])

OpensLeft(m) ==
    /\ m.leftBarline # <<>>
    /\ \/ Lower(m.leftBarline[1].direction) \in {D_forward, D_start}
       \/ NormStyle(m.leftBarline[1].style) = S_heavy_light

\* the measure's rightBarline closes a repeat: direction backward/end, or
\* style light-heavy
ClosesRight(m) ==
    /\ m.rightBarline # <<>>
    /\ \/ Lower(m.rightBarline[1].direction) \in {D_backward, D_end}
       \/ NormStyle(m.rightBarline[1].style) = S_light_heavy

IsEndingToken(t) ==
    /\ Len(t) >= 2
    /\ t[1] = "N"
    /\ t[2] \in {"0", "1", "2", "3", "4", "5", "6", "7", "8", "9"}

\* C9: every ending token of a progression is one of N1, N2, N3.
C9_EndingTokensN1N2N3 ==
    pc = "done" =>
        \A i \in 1..Len(ProgTokens) :
            IsEndingToken(ProgTokens[i]) =>
                ProgTokens[i] \in {<<"N", "1">>, <<"N", "2">>, <<"N", "3">>}

\* C10: of the tokens one measure emits, those before its bar token hold at
\* most one '{' and at most one '[', and those after its bar token at most
\* one '}' and at most one ']'.
C10_AtMostOnePerEdge ==
    [][pc = "loop" /\ idx' = idx + 1 =>
          LET new == SubSeq(lines', Len(lines) + 1, Len(lines'))
              b == PosOf(new, BarToken)
              before == SubSeq(new, 1, b - 1)
              after == SubSeq(new, b + 1, Len(new))
          IN /\ Count(new, BarToken) = 1
             /\ Count(before, <<"{">>) <= 1
             /\ Count(before, <<"[">>) <= 1
             /\ Count(after, <<"}">>) <= 1
             /\ Count(after, <<"]">>) <= 1]_vars

\* the first measure, with a left and a right barline of its own, has been
\* emitted in a part whose second measure has the first ending text: both
\* forced brackets were due on it
C10_Witness ==
    /\ pc = "loop"
    /\ idx = 1
    /\ FirstEndingIndex = 1
    /\ OpensLeft(part.measures[1])
    /\ ClosesRight(part.measures[1])
    /\ Count(lines, <<"{">>) = 1
    /\ Count(lines, <<"}">>) = 1

\* the list the deduplication of _measure_chords starts from: the symbol
\* tokens when there are any, else the stacked-chord tokens
SourceTokens(m) ==
    IF SymbolTokens(m.symbols) # <<>> THEN SymbolTokens(m.symbols)
    ELSE StackedTokens(m.chords)

\* the index of the first occurrence of x in seq
FirstIndex(seq, x) ==
    CHOOSE i \in 1..Len(seq) : seq[i] = x /\ \A j \in 1..(i - 1) : seq[j] # x

\* C7: the list _measure_chords returns holds no token twice, holds exactly
\* the tokens found in the measure, and lists them in the order of their
\* first occurrence, for chord symbols and for stacked chords.
C7_Deduplication ==
    mpc = "done" =>
        LET src == SourceTokens(measure)
        IN /\ \A i, j \in 1..Len(tokens) : tokens[i] = tokens[j] => i = j
           /\ {tokens[i] : i \in 1..Len(tokens)} = {src[i] : i \in 1..Len(src)}
           /\ \A i, j \in 1..Len(tokens) :
                  i < j => FirstIndex(src, tokens[i]) < FirstIndex(src, tokens[j])

\* _measure_chords has returned for a measure of three chord symbols, the
\* first and the third the same, the second another one
C7_Witness ==
    /\ mpc = "done"
    /\ Len(measure.symbols) = 3
    /\ measure.symbols[1] = measure.symbols[3]
    /\ SymbolToken(measure.symbols[1]) # <<>>
    /\ SymbolToken(measure.symbols[2]) # <<>>
    /\ SymbolToken(measure.symbols[1]) # SymbolToken(measure.symbols[2])

\* the fields of a returned URL: percent-decoded, the scheme removed, split
\* on '='
UrlFields(u) ==
    LET decoded == Unquote(u)
    IN SplitOn(SubSeq(decoded, Len(Scheme) + 1, Len(decoded)), "=")

\* C4: the string score_to_irealpro_url returns, percent-decoded and with
\* the scheme removed, splits on '=' into exactly 6 fields, the fifth of
\* them 'n', whatever the title, the composer and the style are.
C4_SixFields ==
    upc = "returned" /\ fn = "url" =>
        /\ StartsWith(Unquote(result), Scheme)
        /\ Len(UrlFields(result)) = 6
        /\ UrlFields(result)[5] = <<"n">>

\* no target of the score holds a chord
NoTargetHasChord ==
    \A k \in 1..Len(Targets(score)) : ~HasChord(Targets(score)[k])

\* C5: when no part of the score holds a chord, both functions raise the
\* no-chords error and return nothing; otherwise the part encoded is the
\* first one, in the order of the score, that holds a chord.
C5_NoChordsError ==
    /\ NoTargetHasChord =>
           /\ result = <<>>
           /\ upc \in {"select", "raised"}
           /\ upc = "raised" => error = NoChordsError
    /\ upc \in {"build", "returned"} =>
           LET T == Targets(score)
           IN /\ selected \in 0..(Len(T) - 1)
              /\ HasChord(T[selected + 1])
              /\ \A j \in 1..selected : ~HasChord(T[j])
              /\ part = T[selected + 1]

\* a score of two parts, neither holding a chord, was refused
C5_Witness ==
    /\ upc = "raised"
    /\ Len(score.parts) = 2
    /\ NoTargetHasChord
    /\ error = NoChordsError

\* C6: a string is returned only with a non-empty progression as its last
\* field; when the progression of the selected part is empty the call ends
\* with the no-chords error and returns nothing.
C6_NonEmptyProgression ==
    /\ upc = "returned" =>
           /\ progression # <<>>
           /\ LET fields == IF fn = "url" THEN UrlFields(result)
                            ELSE SplitOn(SubSeq(result, Len(Scheme) + 1, Len(result)), "=")
              IN fields[Len(fields)] = progression
    /\ upc \in {"returned", "raised"} /\ selected >= 0 /\ progression = <<>> =>
           /\ upc = "raised"
           /\ error = NoChordsError
           /\ result = <<>>

\* a part holding a chord was selected, its progression came back empty, and
\* the call was refused
C6_Witness ==
    /\ upc = "raised"
    /\ selected >= 0
    /\ pc = "done"
    /\ progression = <<>>
    /\ HasChord(part)

ReservedChars == {"=", "/", ":", " ", "{", "}", "|", "<", ">"}

\* C12: on the same score and style the two functions both return or both
\* raise the same error; when they return, the percent-decoded result of
\* score_to_irealpro_url is the string score_to_irealpro_raw_url returned,
\* and the encoded form holds none of '=', '/', ':', space, '{', '}', '|',
\* '<', '>'.
C12_RawEncodedAgreement ==
    fn = "raw" /\ upc \in {"returned", "raised"} /\ previous # <<>> =>
        LET url == previous[1]
        IN /\ url.fn = "url"
           /\ url.error = error
           /\ (upc = "returned") = (url.error = "")
           /\ upc = "returned" =>
                  /\ Unquote(url.value) = result
                  /\ \A i \in 1..Len(url.value) : url.value[i] \notin ReservedChars

\* both functions have returned on a score whose title holds a '%' followed
\* by two hexadecimal digits, and whose progression holds a brace
C12_Witness ==
    /\ fn = "raw"
    /\ upc = "returned"
    /\ previous # <<>>
    /\ score.title = <<"5", "%", "3", "D">>
    /\ In("{", progression)
    /\ In("=", result)

\* C13: when the encoding succeeds, score_to_irealpro_html_link returns
\* '<a href="U">T</a>' with U the string score_to_irealpro_url returned and
\* T the HTML-escaped rendered title, whatever the metadata title is.
C13_HtmlAnchor ==
    fn = "html" /\ upc = "returned" =>
        /\ previous[1].fn = "url"
        /\ previous[1].error = ""
        /\ result = AnchorTag(previous[1].value, HtmlEscape(header.title))

Untitled == <<"U", "n", "t", "i", "t", "l", "e", "d">>

\* C14: the title field is 'Untitled' when the trimmed metadata title is
\* empty; '<rest>, The' when the trimmed title starts with 'The ' in any
\* letter case, <rest> being the title after these four characters; the
\* trimmed title itself in every other case.
C14_TitleRendering ==
    header.title # <<>> =>
        LET t == Strip(score.title)
            article == Len(t) >= 4 /\ Lower(SubSeq(t, 1, 4)) = <<"t", "h", "e", " ">>
        IN /\ t = <<>> => header.title = Untitled
           /\ article => header.title = SubSeq(t, 5, Len(t)) \o <<",", " ", "T", "h", "e">>
           /\ t # <<>> /\ ~article => header.title = t

\* a padded title with the article in mixed case has been rendered
C14_Witness ==
    /\ score.title = <<" ", "t", "H", "e", " ", "S", "u", "n">>
    /\ header.title = <<"S", "u", "n", ",", " ", "T", "h", "e">>

\* C15: the composer field is 'Unknown' when the trimmed metadata composer
\* is empty, the name itself when it is one word, and for the words
\* w1 .. wk (k >= 2) the text 'wk w1 ... w(k-1)' with single spaces.
C15_ComposerRendering ==
    header.composer # <<>> =>
        LET name == Strip(score.composer)
            w == Words(name)
            k == Len(w)
        IN /\ name = <<>> => header.composer = Unknown
           /\ k = 1 => header.composer = name
           /\ k >= 2 =>
                  header.composer
                      = Join(<<w[k]>> \o [i \in 1..(k - 1) |-> w[i]], <<" ">>)

\* a padded name of three words, two spaces between them, has been rendered
C15_Witness ==
    /\ score.composer = <<" ", "J", "o", "h", "n", " ", " ", "v", "a", "n", " ", " ",
                          "C", "o", "l", "t", "r", "a", "n", "e", " ">>
    /\ header.composer = <<"C", "o", "l", "t", "r", "a", "n", "e", " ", "J", "o", "h", "n",
                           " ", "v", "a", "n">>

\* a measure number lies in one of the (start, end) ranges
LiesInRanges(num, rs) == \E i \in DOMAIN rs : rs[i][1] <= num /\ num <= rs[i][2]

\* the notes of each measure, in order of the measures
MeasureContents(measures) == [i \in 1 .. Len(measures) |-> measures[i].notes]

\* the measures of a part that the ranges spare, in order
Spared(p, rs) == SelectSeq(p.measures, LAMBDA meas : ~LiesInRanges(meas.number, rs))

\* a part of the result holds what delete_sections with ranges rs is to
\* leave of the loaded part p
LeftOf(p, q, rs) ==
    LET n == Len(p.measures)
        d == Cardinality({i \in 1 .. n : LiesInRanges(i, rs)})
    IN  /\ MeasureContents(q.measures) =
               IF Spared(p, rs) = <<>> THEN <<<<>>>> ELSE MeasureContents(Spared(p, rs))
        /\ Len(q.measures) = IF n - d >= 1 THEN n - d ELSE 1
        /\ \A i \in 1 .. Len(q.measures) : q.measures[i].number = i

\* C16: when delete_sections is given measure ranges, every kept part
\* (its measures numbered 1..n) ends with exactly the measures whose number
\* lies in no range, in their order, or with a single empty measure when
\* none remain; it has max(n - d, 1) measures, d being the number of
\* measures deleted, and they are numbered 1..k.
C16_MeasureRangesDeleted ==
    (op = "sections" /\ epc = "written" /\ ranges # <<>> /\ loaded.parts # <<>>) =>
        LET keep == SelectSeq([i \in 1 .. Len(loaded.parts) |-> i],
                              LAMBDA i : ~(selection.asked /\ ~selection.error
                                           /\ \E k \in DOMAIN selection.found : selection.found[k] = i))
        IN  keep # <<>> =>
                /\ Len(new_score.parts) = Len(keep)
                /\ \A j \in 1 .. Len(keep) : LeftOf(loaded.parts[keep[j]], new_score.parts[j], ranges)

\* a part of four measures lost its second and third, another lost all
C16_Witness ==
    /\ op = "sections"
    /\ epc = "written"
    /\ ranges = <<<<2, 3>>, <<1, 1>>>>
    /\ Len(loaded.parts) = 2
    /\ ~selection.asked
    /\ Len(loaded.parts[1].measures) = 2
    /\ Len(loaded.parts[2].measures) = 4
    /\ MeasureContents(new_score.parts[1].measures) = <<<<>>>>
    /\ MeasureContents(new_score.parts[2].measures) = <<<<PlainNote(64)>>>>

\* the elements of a measure that one of the four functions targets: the
\* lyrics of its notes, the fingerings of its notes, its text annotations,
\* its chord symbols
Targeted(meas, what) ==
    CASE what = "lyrics" -> {k \in DOMAIN meas.notes : meas.notes[k].cls = "Note" /\ meas.notes[k].lyrics # <<>>}
      [] what = "fingering" -> {k \in DOMAIN meas.notes : meas.notes[k].cls = "Note"
                                    /\ \E a \in DOMAIN meas.notes[k].articulations : meas.notes[k].articulations[a] = "Fingering"}
      [] what = "annotations" -> {k \in DOMAIN meas.texts : meas.texts[k] \in {"TextExpression", "RehearsalMark", "Expression"}}
      [] what = "chords" -> {k \in DOMAIN meas.harmony : TRUE}

\* the measures of the selected parts, before and after
ScopedPairs ==
    IF loaded.parts = <<>> THEN {<<loaded.own[i], new_score.own[i]>> : i \in DOMAIN loaded.own}
    ELSE UNION {{<<loaded.parts[j].measures[i], new_score.parts[j].measures[i]>> : i \in DOMAIN loaded.parts[j].measures} :
                    j \in SelectedParts(loaded, selection)}

NoteSequence(measures) ==
    LET places == NotePlaces(measures, 1)
    IN  [i \in 1 .. Len(places) |->
            [note |-> measures[places[i][1]].notes[places[i][2]],
             beat |-> LocalBeatQuarterLength(measures, places[i][1])]]

\* the i-th note of the sequence meets every condition of an ornament
MeetsAll(ns, i, r) ==
    /\ 1 < i
    /\ i < Len(ns)
    /\ ns[i].note.grace \/ ns[i].note.ql * r.den < ns[i].beat * r.num
    /\ ns[i - 1].note.ql * r.den >= ns[i].beat * r.num
    /\ ns[i + 1].note.ql * r.den >= ns[i].beat * r.num
    /\ ns[i].note.pitch - ns[i - 1].note.pitch \in {-2, -1, 1, 2}
    /\ ns[i].note.pitch - ns[i + 1].note.pitch \in {-2, -1, 1, 2}
    /\ ns[i].note.strength < 4

\* the notes of the sequence that meet not every condition, in order
NonOrnaments(ns, r) ==
    LET kept == SelectSeq([i \in 1 .. Len(ns) |-> i], LAMBDA i : ~MeetsAll(ns, i, r))
    IN  [k \in 1 .. Len(kept) |-> ns[kept[k]].note]

\* C18: in the note sequence of a part, ornament removal removes a note if
\* and only if it has a note before and after it, is a grace note or
\* shorter than threshold = local beat x ratio, has both neighbours at
\* least as long as the threshold, is 1 or 2 semitones from each of them
\* and has beat strength below 0.5; the other notes are kept in order.
C18_OrnamentRemoval ==
    (op = "ornament_removal" /\ epc = "written") =>
        /\ Len(new_score.parts) = Len(loaded.parts)
        /\ \A j \in DOMAIN loaded.parts :
               LET before == NoteSequence(loaded.parts[j].measures)
                   after == NoteSequence(new_score.parts[j].measures)
               IN  [i \in 1 .. Len(after) |-> after[i].note] = NonOrnaments(before, ratio)

\* a note of 1/8 quarter between two quarter notes a step away, on a weak
\* beat in 4/4, was removed with the ratio 1/4
C18_Witness ==
    /\ op = "ornament_removal"
    /\ epc = "written"
    /\ ratio = [num |-> 1, den |-> 4]
    /\ loaded.parts[1].measures[1].ts = <<"4/4">>
    /\ loaded.parts[1].measures[1].notes = <<Sounding("Note", 60, 16, FALSE, 2), Sounding("Note", 62, 2, FALSE, 2)>>
    /\ loaded.parts[1].measures[2].notes = <<Sounding("Note", 60, 16, FALSE, 2)>>
    /\ new_score.parts[1].measures[1].notes = <<Sounding("Note", 60, 16, FALSE, 2)>>
    /\ new_score.parts[1].measures[2].notes = <<Sounding("Note", 60, 16, FALSE, 2)>>

\* the kind of an item of lines, by its text: 1 time signature,
\* 2 rehearsal, 3 ending, 4 cue, 5 barline prefix, 6 chord group, 7 bar,
\* 8 barline suffix
TokenKind(tok) ==
    IF tok \in {<<"}">>, <<"]">>} THEN 8
    ELSE IF tok \in {<<"|">>, <<"Z">>} THEN 7
    ELSE IF tok \in {<<"{">>, <<"[">>} THEN 5
    ELSE IF Len(tok) >= 2 /\ tok[1] = "T" /\ tok[2] \in {"1", "2", "3", "4", "5", "6", "7", "8", "9"} THEN 1
    ELSE IF Len(tok) >= 1 /\ tok[1] = "*" THEN 2
    ELSE IF Len(tok) >= 2 /\ tok[1] = "N" /\ tok[2] \in {"1", "2", "3", "4", "5", "6", "7", "8", "9"} THEN 3
    ELSE IF Len(tok) >= 1 /\ tok[1] = "<" THEN 4
    ELSE 6

\* the places of the bar tokens in a list of items
BarPlaces(ls) == SelectSeq([k \in 1 .. Len(ls) |-> k], LAMBDA k : TokenKind(ls[k]) = 7)

\* the items between the (i-1)-th and the i-th bar token
BetweenBars(ls, i) ==
    SubSeq(ls, IF i = 1 THEN 1 ELSE BarPlaces(ls)[i - 1] + 1, BarPlaces(ls)[i] - 1)

\* the items of one kind
OfKind(ls, kind) == SelectSeq(ls, LAMBDA tok : TokenKind(tok) = kind)

\* zero or one item
Opt(tok) == IF tok = <<>> THEN <<>> ELSE <<tok>>

\* C19: the items of a progression come measure by measure, and within a
\* measure in the order time signature, rehearsal, ending, cues, barline
\* prefixes, the chords as one space-joined group, the bar token, barline
\* suffixes; the chord group between the (i-1)-th and the i-th bar token is
\* the chord list of measure i.
C19_EmissionOrder ==
    (pc = "done" /\ Len(given.measures) >= 1) =>
        /\ Len(BarPlaces(lines)) = Len(given.measures)
        /\ TokenKind(lines[Len(lines)]) >= 7
        /\ \A k \in 1 .. (Len(lines) - 1) :
               LET a == TokenKind(lines[k])
                   b == TokenKind(lines[k + 1])
               IN  /\ a < 7 => (a <= b /\ b <= 7)
                   /\ a \in {1, 2, 3, 6} => a < b
        /\ \A i \in 1 .. Len(given.measures) :
               LET meas == given.measures[i]
                   items == BetweenBars(lines, i)
               IN  /\ OfKind(items, 6) = Opt(Join(MeasureChords(meas), <<" ">>))
                   /\ OfKind(items, 2) = Opt(RehearsalToken(meas))
                   /\ OfKind(items, 4) = StaffTextTokens(meas)

\* a first measure that emits items of every kind, two cues among them
C19_Witness ==
    /\ pc = "done"
    /\ Len(given.measures) = 2
    /\ given.measures[1] = FullMeasure
    /\ [k \in 1 .. 9 |-> TokenKind(lines[k])] = <<1, 2, 3, 4, 4, 5, 6, 7, 8>>
    /\ Len(OfKind(BetweenBars(lines, 2), 6)) = 1

\* the time-signature tokens emitted before the items of measure i
EmittedBefore(ls, i, first) ==
    IF i = 1 THEN Opt(first) ELSE OfKind(SubSeq(ls, 1, BarPlaces(ls)[i - 1]), 1)

\* the items of measure i, without the token emitted before the first measure
OwnItems(ls, i, first) ==
    IF i = 1 /\ first # <<>> THEN Tail(BetweenBars(ls, 1)) ELSE BetweenBars(ls, i)

\* C20: the first detected time signature of the part is emitted once,
\* before the items of the first measure; after that a measure emits a
\* time-signature token exactly when it carries its own signature and the
\* token differs from the last one emitted; no two successive
\* time-signature tokens are equal.
C20_TimeSignatureEmission ==
    (pc = "done" /\ Len(given.measures) >= 1) =>
        LET first == DetectTimeSignature(given)
            all == OfKind(lines, 1)
        IN  /\ first # <<>> => lines[1] = first
            /\ first = <<>> => all = <<>>
            /\ \A i \in 1 .. Len(given.measures) :
                   LET before == EmittedBefore(lines, i, first)
                       own == TsForMeasure(given.measures[i])
                   IN  OfKind(OwnItems(lines, i, first), 1) =
                           IF own # <<>> /\ (before = <<>> \/ own # before[Len(before)]) THEN <<own>> ELSE <<>>
            /\ \A k \in 1 .. (Len(all) - 1) : all[k] # all[k + 1]

\* the second measure carries the signature already emitted and emits no
\* token, the third changes it and emits one
C20_Witness ==
    /\ pc = "done"
    /\ Len(given.measures) = 3
    /\ given.ts = <<>>
    /\ given.measures[1].ts = <<TS(4, 4)>>
    /\ given.measures[2].ts = <<TS(4, 4)>>
    /\ given.measures[3].ts = <<TS(3, 4)>>
    /\ OfKind(lines, 1) = <<TsToken(TS(4, 4)), TsToken(TS(3, 4))>>
    /\ OfKind(BetweenBars(lines, 2), 1) = <<>>

\* the measures (counted from 0) that hold a Repeat at the right with
\* direction backward or end
BackwardAt(measures) ==
    {i \in 0 .. (Len(measures) - 1) :
        \E k \in DOMAIN ListedRepeats(measures[i + 1]) :
            LET rep == ListedRepeats(measures[i + 1])[k]
            IN  /\ Lower(PyStr(rep.direction)) \in {<<"e", "n", "d">>, <<"b", "a", "c", "k", "w", "a", "r", "d">>}
                /\ Lower(PyStr(rep.location)) = <<"r", "i", "g", "h", "t">>}

\* the measures (counted from 0) whose right barline has a type holding "final"
FinalAt(measures) ==
    {i \in 0 .. (Len(measures) - 1) :
        /\ measures[i + 1].rightBarline # <<>>
        /\ Contains(Lower(PyStr(measures[i + 1].rightBarline[1].type)), <<"f", "i", "n", "a", "l">>)}

\* the least number of a non-empty set of numbers
Least(S) == CHOOSE x \in S : \A y \in S : x <= y

\* the ending token measure i (counted from 0) is to receive when no
\* measure has an ending text
SyntheticFor(measures, i) ==
    IF BackwardAt(measures) = {} THEN <<>>
    ELSE LET b == Least(BackwardAt(measures))
             later == {j \in FinalAt(measures) : j > b}
             stop == IF later = {} THEN Len(measures) - 1 ELSE Least(later)
         IN  IF b < i /\ i <= stop THEN <<"N">> \o Digits(i - b) ELSE <<>>

\* C21: when no measure has an ending text and b is the first measure with
\* a backward repeat at its right, the measures b+1, b+2, ... receive N1,
\* N2, ... up to and including the first measure after b with a final right
\* barline (or the last measure); every other measure receives no ending
\* token, and without a backward repeat none does.
C21_SyntheticEndings ==
    (pc = "done" /\ Len(given.measures) >= 1
        /\ \A k \in DOMAIN given.measures : ~HasEndingText(given.measures[k])) =>
        /\ DOMAIN synthetic_endings =
               {i \in 0 .. (Len(given.measures) - 1) : SyntheticFor(given.measures, i) # <<>>}
        /\ \A i \in 0 .. (Len(given.measures) - 1) :
               OfKind(BetweenBars(lines, i + 1), 3) = Opt(SyntheticFor(given.measures, i))

\* five measures, a backward repeat (of type final) on the second and a
\* final barline on the fourth: the third and fourth receive N1 and N2, the
\* fifth nothing
C21_Witness ==
    /\ pc = "done"
    /\ Len(given.measures) = 5
    /\ BackwardAt(given.measures) = {1}
    /\ FinalAt(given.measures) = {1, 3}
    /\ \A k \in DOMAIN given.measures : ~HasEndingText(given.measures[k])
    /\ OfKind(lines, 3) = <<<<"N", "1">>, <<"N", "2">>>>
    /\ OfKind(BetweenBars(lines, 5), 3) = <<>>

\* the place of the first ending token in a list of items, 0 when none
FirstEndingPlace(ls) ==
    LET at == SelectSeq([k \in 1 .. Len(ls) |-> k], LAMBDA k : TokenKind(ls[k]) = 3)
    IN  IF at = <<>> THEN 0 ELSE at[1]

\* C22: whenever some measure has an ending text, the progression holds a
\* '{' before the first ending token and a '}' after it, wherever the first
\* ending measure stands and also without repeat barlines.
C22_EndingsInsideBracket ==
    (pc = "done" /\ \E k \in DOMAIN given.measures : HasEndingText(given.measures[k])) =>
        LET at == FirstEndingPlace(lines)
        IN  /\ at > 0
            /\ \E i \in 1 .. (at - 1) : lines[i] = <<"{">>
            /\ \E j \in (at + 1) .. Len(lines) : lines[j] = <<"}">>

\* C23: every progression returned by _build_progression holds exactly one
\* 'Z' token, the one of a part without measures and without time
\* signature included.
C23_ExactlyOneZ == pc = "done" => Count(ProgTokens, <<"Z">>) = 1

\* C24: the chord tokens of a measure holding at least one chord symbol
\* come from its chord symbols only, never from its stacked chords, also
\* when a chord symbol gives no token; a measure with neither gives none.
C24_SymbolsOnly ==
    mpc = "done" =>
        /\ measure.symbols # <<>> =>
               \A i \in DOMAIN tokens : \E k \in DOMAIN measure.symbols : tokens[i] = SymbolToken(measure.symbols[k])
        /\ (measure.symbols = <<>> /\ measure.chords = <<>>) => tokens = <<>>

\* C25: no chord token returned by _measure_chords holds the flat marker
\* '-': flats are rendered as 'b' in the figure text, in the root-and-quality
\* fallback, in the stacked-chord root and in an appended bass.
C25_FlatNormalization ==
    mpc = "done" => \A i \in DOMAIN tokens : ~Contains(tokens[i], <<"-">>)

\* a style text as it is compared: lower-cased, without the enum prefix,
\* underscores turned into hyphens
StyleAsCompared(s) ==
    Replace(Replace(Lower(s), <<"b", "a", "r", "l", "i", "n", "e", "s", "t", "y", "l", "e", ".">>, <<>>), <<"_">>, <<"-">>)

\* the marker in a barline field opens a repeat, opens a double bar,
\* closes a repeat, closes a double bar
OpensRepeat(field) ==
    field # <<>> /\ (Lower(field[1].direction) \in {<<"f", "o", "r", "w", "a", "r", "d">>, <<"s", "t", "a", "r", "t">>}
                     \/ StyleAsCompared(field[1].style) = <<"h", "e", "a", "v", "y", "-", "l", "i", "g", "h", "t">>)

OpensDouble(field) ==
    field # <<>> /\ StyleAsCompared(field[1].style) = <<"l", "i", "g", "h", "t", "-", "l", "i", "g", "h", "t">>

ClosesRepeat(field) ==
    field # <<>> /\ (Lower(field[1].direction) \in {<<"b", "a", "c", "k", "w", "a", "r", "d">>, <<"e", "n", "d">>}
                     \/ StyleAsCompared(field[1].style) = <<"l", "i", "g", "h", "t", "-", "h", "e", "a", "v", "y">>)

ClosesDouble(field) ==
    field # <<>> /\ StyleAsCompared(field[1].style) = <<"l", "i", "g", "h", "t", "-", "l", "i", "g", "h", "t">>

HeldInField(meas) ==
    IF NormLocation(NormLower(meas.otherBars[1].location)) = L_left
    THEN [meas EXCEPT !.leftBarline = <<meas.otherBars[1]>>, !.otherBars = <<>>]
    ELSE [meas EXCEPT !.rightBarline = <<meas.otherBars[1]>>, !.otherBars = <<>>]

\* C27: a marker that is only among the listed barline/repeat elements of a
\* measure (both barline fields absent) gives the prefix/suffix tokens it
\* would give when held in the left/right barline field.
C27_ListedMarkers ==
    (/\ mpc = "read"
     /\ measure.leftBarline = <<>>
     /\ measure.rightBarline = <<>>
     /\ Len(measure.otherBars) = 1) =>
        tokens = <<BarlineTokens(HeldInField(measure)).prefix,
                   BarlineTokens(HeldInField(measure)).suffix>>

\* how often an item stands in a list of items
Times(ls, item) == Cardinality({k \in DOMAIN ls : ls[k] = item})

\* the measures whose left barline field opens a repeat, and those whose
\* right barline field closes one
OpeningMarkers(measures) ==
    {k \in DOMAIN measures : OpensRepeat(measures[k].leftBarline)}

ClosingMarkers(measures) ==
    {k \in DOMAIN measures : ClosesRepeat(measures[k].rightBarline)}

\* the synthetic token of measure i (counted from 0), empty when it has none
SyntheticAt(i) ==
    IF i \in DOMAIN synthetic_endings THEN synthetic_endings[i] ELSE <<>>

\* C28: the synthetic-endings map is non-empty only when no measure has an
\* ending text; in one progression the ending tokens are either all those
\* of the measure texts or all those of the synthetic map; and when the map
\* is non-empty no '{' or '}' is forced: the progression has as many '{'
\* and '}' as the measures have opening and closing barline markers.
C28_EndingSourcesExclusive ==
    (pc = "done") =>
        /\ (DOMAIN synthetic_endings # {}) =>
              /\ ending_indices = <<>>
              /\ \A k \in DOMAIN given.measures :
                     ~HasEndingText(given.measures[k]) /\ EndingToken(given.measures[k]) = <<>>
              /\ Times(lines, <<"{">>) = Cardinality(OpeningMarkers(given.measures))
              /\ Times(lines, <<"}">>) = Cardinality(ClosingMarkers(given.measures))
        /\ \/ \A i \in 0 .. (Len(given.measures) - 1) :
                  OfKind(BetweenBars(lines, i + 1), 3) = Opt(EndingToken(given.measures[i + 1]))
           \/ \A i \in 0 .. (Len(given.measures) - 1) :
                  OfKind(BetweenBars(lines, i + 1), 3) = Opt(SyntheticAt(i))

\* a backward repeat on the first of three measures without ending texts:
\* N1 and N2 come from the map, the only '}' is the marker's and there is
\* no '{'
C28_Witness ==
    /\ pc = "done"
    /\ Len(given.measures) = 3
    /\ DOMAIN synthetic_endings = {1, 2}
    /\ OfKind(lines, 3) = <<<<"N", "1">>, <<"N", "2">>>>
    /\ Times(lines, <<"}">>) = 1
    /\ Times(lines, <<"{">>) = 0

\* the six cue tokens
CueDCFine == <<"<", "D", ".", "C", ".", " ", "a", "l", " ", "F", "i", "n", "e", ">">>
CueDSFine == <<"<", "D", ".", "S", ".", " ", "a", "l", " ", "F", "i", "n", "e", ">">>
CueDCCoda == <<"<", "D", ".", "C", ".", " ", "a", "l", " ", "C", "o", "d", "a", ">">>
CueDSCoda == <<"<", "D", ".", "S", ".", " ", "a", "l", " ", "C", "o", "d", "a", ">">>
CueFine == <<"<", "F", "i", "n", "e", ">">>
CueCoda == <<"<", "C", "o", "d", "a", ">">>
CueTokens == {CueDCFine, CueDSFine, CueDCCoda, CueDSCoda, CueFine, CueCoda}

\* the phrases that call for a cue token: the token's words, with and
\* without the dots
PhrasesFor(cue) ==
    {SubSeq(cue, 2, Len(cue) - 1),
     SelectSeq(SubSeq(cue, 2, Len(cue) - 1), LAMBDA ch : ch # ".")}

\* some text of the measure holds a phrase of the cue, whatever the case
CalledFor(meas, cue) ==
    \E k \in DOMAIN meas.texts : \E phrase \in PhrasesFor(cue) :
        Contains(Lower(meas.texts[k].content), Lower(phrase))

\* C29: a measure emits a cue token exactly when one of its texts contains
\* one of the token's phrases, compared without regard to case; hence
\* '<D.C. al Fine>' or '<D.S. al Fine>' is never emitted without '<Fine>',
\* nor '<D.C. al Coda>' or '<D.S. al Coda>' without '<Coda>'; each of the
\* six tokens appears at most once and nothing else is emitted.
C29_CueOverlap ==
    (mpc = "cued") =>
        /\ \A cue \in CueTokens : In(cue, tokens) <=> CalledFor(measure, cue)
        /\ (In(CueDCFine, tokens) \/ In(CueDSFine, tokens)) => In(CueFine, tokens)
        /\ (In(CueDCCoda, tokens) \/ In(CueDSCoda, tokens)) => In(CueCoda, tokens)
        /\ \A k \in DOMAIN tokens :
               tokens[k] \in CueTokens /\ Times(tokens, tokens[k]) = 1

\* the texts 'play DS al FINE' and 'dc AL coda' in one measure gave four
\* tokens
C29_Witness ==
    /\ mpc = "cued"
    /\ Len(measure.texts) = 2
    /\ tokens = <<CueDSFine, CueFine, CueDCCoda, CueCoda>>

\* the names of a sequence of parts
PartNames(ps) == [j \in DOMAIN ps |-> ps[j].name]

\* parts were asked for and none was found (nothing returned, or an error)
NoPartMatched == selection.asked /\ selection.found = <<>>

====
